---- MODULE Spec2Model ----
(***************************************************************************)
(* The reconcilers of the MinIO operator: one resource record (a Bucket,   *)
(* a Policy or a User custom resource), the remote MinIO resource it       *)
(* names, and the reconcile passes the controller runs on it.              *)
(*                                                                         *)
(* A reconcile pass is one action, from the r.Get at its start to its      *)
(* return; which of its remote calls and record writes fail is an input    *)
(* of the pass (a fault).  The only pass that is split into steps is the   *)
(* bucket deletion, because finalizerOpsForBucket loops without a bound.   *)
(*                                                                         *)
(* The repository holds two versions of the bucket reconciler; both are    *)
(* modelled: kind "bucket" is src/unnamed/part_003 (Spec.Name, the         *)
(* MINIO_EMPTY_BUCKET_ON_DELETE switch), kind "bucketLegacy" is            *)
(* src/internal/controller/bucket_controller.go (BucketExists before       *)
(* MakeBucket, Spec.EmptyOnDelete).                                        *)
(***************************************************************************)
EXTENDS Integers, Sequences, FiniteSets, TLC

VARIABLES
    kind,      \* which reconciler owns the record
    cr,        \* the resource record as the API server stores it
    remote,    \* the remote MinIO resource the record names
    env,       \* the process environment of the operator
    pc,        \* position of the running pass ("idle" between passes)
    last,      \* what the last step did (calls issued, result returned)
    provider,  \* the package variables of the client provider and its callers
    pair       \* two bucket records and the buckets their Spec.Name may name

vars == <<kind, cr, remote, env, pc, last, provider, pair>>

(***************************************************************************)
(* Bounds of the model.                                                    *)
(***************************************************************************)
MaxQuota == 1
MaxObjects == 2
\* calls of getClient and getAdminClient in one run of the provider
MaxCalls == 3

MaxPolicies == 2

(***************************************************************************)
(* Status values.                                                          *)
(***************************************************************************)
typeUnset == ""
typeCreating == "Creating"
typeReady == "Ready"
typeUpdating == "Updating"
typeDegraded == "Degraded"
typeError == "Error"

States == {typeUnset, typeCreating, typeReady, typeUpdating, typeDegraded, typeError}

Kinds == {"bucket", "bucketLegacy", "policy", "user"}

BucketKinds == {"bucket", "bucketLegacy"}

(***************************************************************************)
(* Error texts.  The code matches remote errors by substring; the texts    *)
(* the code looks for are kept apart from every other failure text.        *)
(***************************************************************************)
AlreadyOwnedMsg == "Your previous request to create the named bucket succeeded and you already own it"
DoesNotExistMsg == "does not exist"
NotEmptyMsg == "not empty"
NoNetEffectMsg == "policy update has no net effect"
EndpointMustBeSetMsg == "MINIO_ENDPOINT must be set"
AccessKeyMustBeSetMsg == "MINIO_ACCESS_KEY_ID must be set"
SecretKeyMustBeSetMsg == "MINIO_SECRET_ACCESS_KEY must be set"
UseSSLParseMsg == "MINIO_USE_SSL must be either true or false"
EmptyOnDeleteParseMsg == "MINIO_EMPTY_BUCKET_ON_DELETE must be either true or false"
WriteErr == "record write failed"

\* texts of the remote failures a pass may be handed
ErrTexts == {"e1", "e2"}

(***************************************************************************)
(* Policy documents.  A document is a JSON object written as a sequence of *)
(* members, with or without insignificant whitespace.  Member "a" is       *)
(* "a":1; member "b" is "b":"&" with the ampersand written raw, and "bEsc" *)
(* is the same member with the ampersand written as its u0026 escape.     *)
(***************************************************************************)
Members == {"a", "b", "bEsc"}

\* the key a member binds
KeyOf(m) == IF m = "bEsc" THEN "b" ELSE m

MemberSeqs == {<<"a">>, <<"a", "b">>, <<"b", "a">>, <<"a", "bEsc">>, <<"bEsc", "a">>}

Docs == [members : MemberSeqs, spaced : BOOLEAN]

\* documents as the server returns them: no insignificant whitespace
RemoteDocs == {d \in Docs : ~d.spaced}

\* the zero value of a document field that is not in use
NoDoc == [members |-> <<>>, spaced |-> FALSE]

\* the JSON value a document denotes: the set of its (key, value) bindings
JSONValue(d) == {KeyOf(d.members[i]) : i \in 1..Len(d.members)}

\* json.Compact: drops insignificant whitespace, keeps member order and escapes
Compact(d) == [d EXCEPT !.spaced = FALSE]

EscapeHTML(m) == IF m = "b" THEN "bEsc" ELSE m

\* json.Marshal of a json.RawMessage: compacts and escapes <, > and &
MarshalRaw(d) == [members |-> [i \in 1..Len(d.members) |-> EscapeHTML(d.members[i])], spaced |-> FALSE]

\* a mutant of equivalentPolicies: compares the raw bytes
equivalentPolicies_bytes(currentPolicy, newPolicy) == currentPolicy = newPolicy

\* equivalentPolicies(currentPolicy json.RawMessage, newPolicy string)
equivalentPolicies(currentPolicy, newPolicy) == MarshalRaw(currentPolicy) = Compact(newPolicy)

(***************************************************************************)
(* User policies.                                                          *)
(***************************************************************************)
PolicyNames == {"readonly", "diagnostics", "writeonly"}

\* Spec.Policies is a list of strings; the CRD does not forbid empty entries
PolicyLists == UNION {[1..n -> PolicyNames \cup {""}] : n \in 0..MaxPolicies}

Range(s) == {s[i] : i \in 1..Len(s)}

\* slices.Contains
Contains(s, e) == \E i \in 1..Len(s) : s[i] = e

\* a mutant of arrayDifference: the empty-string test is missing
arrayDifference_keepEmpty(a, b) == [missing |-> SelectSeq(b, LAMBDA e : ~Contains(a, e)), additional |-> SelectSeq(a, LAMBDA e : ~Contains(b, e))]

\* arrayDifference(a, b): the elements of b not in a, and those of a not in b
arrayDifference(a, b) == [missing |-> SelectSeq(b, LAMBDA e : ~Contains(a, e) /\ e # ""), additional |-> SelectSeq(a, LAMBDA e : ~Contains(b, e) /\ e # "")]

RECURSIVE SetToSeq(_)
SetToSeq(S) == IF S = {} THEN <<>> ELSE LET x == CHOOSE y \in S : TRUE IN <<x>> \o SetToSeq(S \ {x})

\* strings.Split(userInfo.PolicyName, ","): the empty string splits to [""]
SplitPolicyName(attached) == IF attached = {} THEN <<"">> ELSE SetToSeq(attached)

(***************************************************************************)
(* The record, the remote resource and the environment.                    *)
(***************************************************************************)
Quotas == 0..MaxQuota

\* the Spec fields of the three kinds; a kind leaves the others at their zero value
Spec0 == [quota |-> 0, emptyOnDelete |-> FALSE, content |-> NoDoc, policies |-> <<>>, accountStatus |-> "enabled"]

SpecsOf(k) ==
    CASE k = "bucket" -> {[Spec0 EXCEPT !.quota = q] : q \in Quotas}
      [] k = "bucketLegacy" -> {[Spec0 EXCEPT !.quota = q, !.emptyOnDelete = e] : q \in Quotas, e \in BOOLEAN}
      [] k = "policy" -> {[Spec0 EXCEPT !.content = d] : d \in Docs}
      [] k = "user" -> {[Spec0 EXCEPT !.policies = p, !.accountStatus = a] : p \in PolicyLists, a \in {"enabled", "disabled"}}

\* the remote resource; byOp records that a call of the reconciler created it;
\* a bucket holds `objects` removable objects and may hold versions under a lock
\* that a batch delete with GovernanceBypass cannot remove
Remote0 == [exists |-> FALSE, byOp |-> FALSE, quota |-> 0, objects |-> 0, locked |-> FALSE, doc |-> NoDoc, attached |-> {}]

RemotesOf(k) ==
    CASE k \in BucketKinds -> {Remote0} \cup {[Remote0 EXCEPT !.exists = TRUE, !.quota = q, !.objects = n, !.locked = l] : q \in Quotas, n \in 0..MaxObjects, l \in BOOLEAN}
      [] k = "policy" -> {Remote0} \cup {[Remote0 EXCEPT !.exists = TRUE, !.doc = d] : d \in RemoteDocs}
      [] k = "user" -> {Remote0} \cup {[Remote0 EXCEPT !.exists = TRUE, !.attached = s] : s \in SUBSET PolicyNames}

\* the process environment: MINIO_ENDPOINT, MINIO_ACCESS_KEY_ID and
\* MINIO_SECRET_ACCESS_KEY set or not; MINIO_USE_SSL and
\* MINIO_EMPTY_BUCKET_ON_DELETE unset, a boolean text, or some other text
Env0 == [endpoint |-> TRUE, accessKeyID |-> TRUE, secretAccessKey |-> TRUE, useSSL |-> "unset", emptyBucketOnDelete |-> "unset"]

\* the environments in which one required setting is absent
BrokenEnvs ==
    {[Env0 EXCEPT !.endpoint = FALSE], [Env0 EXCEPT !.accessKeyID = FALSE], [Env0 EXCEPT !.secretAccessKey = FALSE]}

\* the environment without the secret key
NoSecretEnv == [Env0 EXCEPT !.secretAccessKey = FALSE]

\* the environments a run starts in: each absent setting is tried with the
\* policy reconciler, the absent secret key with the others
EnvsOf(k) ==
    CASE k = "bucket" -> {[Env0 EXCEPT !.emptyBucketOnDelete = v] : v \in {"unset", "true", "false", "other"}} \cup {NoSecretEnv}
      [] k = "bucketLegacy" -> {Env0}
      [] k = "policy" -> {Env0} \cup BrokenEnvs
      [] k = "user" -> {Env0, NoSecretEnv}

\* the reconcilers that call the provider, each in its own goroutine
Callers == {"bucket", "policy", "user"}

\* the package variables of common.go at start: no client, no setting kept;
\* and what the callers have done: calls entered, clients built, lookups made
Provider0 ==
    [minioClient |-> FALSE, minioAdminClient |-> FALSE, kept |-> 0, keptBy |-> "none",
     at |-> [p \in Callers |-> "idle"],
     calls |-> 0, clients |-> 0, adminClients |-> 0, lookups |-> <<0, 0, 0>>, sslLookups |-> 0]

\* what a step reports: the branch taken, the remote calls issued, the result
Last0 == [step |-> "init", result |-> "none", calls |-> {}, remoteFailed |-> FALSE, writeFailed |-> FALSE, err |-> "", removal |-> "none", event |-> FALSE, detach |-> <<>>, attach |-> <<>>, dropped |-> FALSE, cancelled |-> FALSE]

L(step) == [Last0 EXCEPT !.step = step, !.result = "done"]

\* the records and buckets of the two-record specification, empty elsewhere
Pair0 == [rec |-> <<>>, name |-> <<>>, pc |-> <<>>, last |-> <<>>, buckets |-> <<>>, acted |-> "none"]

Init ==
    /\ kind \in Kinds
    /\ cr \in {[present |-> TRUE, state |-> typeUnset, message |-> "", finalizer |-> FALSE, deletion |-> FALSE, spec |-> s] : s \in SpecsOf(kind)}
    /\ remote \in RemotesOf(kind)
    /\ env \in EnvsOf(kind)
    /\ pc = "idle"
    /\ provider = Provider0
    /\ pair = Pair0
    /\ last = Last0

(***************************************************************************)
(* The remote API as the reconcilers use it.  A call returns the remote    *)
(* state after it and its error text ("" for success).                     *)
(***************************************************************************)
Ok(r) == [remote |-> r, err |-> ""]

Err(r, e) == [remote |-> r, err |-> e]

\* client.MakeBucket: an existing bucket answers "you already own it"
MakeBucket(r) == IF r.exists THEN Err(r, AlreadyOwnedMsg) ELSE Ok([Remote0 EXCEPT !.exists = TRUE, !.byOp = TRUE])

\* adminClient.SetBucketQuota with madmin.HardQuota
SetBucketQuota(r, q) == IF r.exists THEN Ok([r EXCEPT !.quota = q]) ELSE Err(r, DoesNotExistMsg)

\* client.RemoveBucket
RemoveBucket(r) ==
    IF ~r.exists THEN Err(r, DoesNotExistMsg)
    ELSE IF r.objects > 0 \/ r.locked THEN Err(r, NotEmptyMsg)
    ELSE Ok(Remote0)

\* adminClient.AddCannedPolicy: the server stores the document in its own form
AddCannedPolicy(r, stored) == Ok([r EXCEPT !.exists = TRUE, !.byOp = (r.byOp \/ ~r.exists), !.doc = stored])

\* adminClient.RemoveCannedPolicy
RemoveCannedPolicy(r) == IF r.exists THEN Ok(Remote0) ELSE Err(r, DoesNotExistMsg)

\* adminClient.SetUser: creates the user or overwrites its secret and status
SetUser(r, status) == Ok([r EXCEPT !.exists = TRUE, !.byOp = (r.byOp \/ ~r.exists)])

\* adminClient.RemoveUser
RemoveUser(r) == IF r.exists THEN Ok(Remote0) ELSE Err(r, DoesNotExistMsg)

\* adminClient.AttachPolicy: nothing new to attach is "no net effect"
AttachPolicy(r, req) ==
    IF ~r.exists THEN Err(r, DoesNotExistMsg)
    ELSE IF (Range(req) \ {""}) \subseteq r.attached THEN Err(r, NoNetEffectMsg)
    ELSE Ok([r EXCEPT !.attached = r.attached \cup (Range(req) \ {""})])

\* adminClient.DetachPolicy: nothing attached to detach is "no net effect"
DetachPolicy(r, req) ==
    IF ~r.exists THEN Err(r, DoesNotExistMsg)
    ELSE IF Range(req) \cap r.attached = {} THEN Err(r, NoNetEffectMsg)
    ELSE Ok([r EXCEPT !.attached = r.attached \ Range(req)])

(***************************************************************************)
(* Faults: which remote call of a pass fails (with which text) and which   *)
(* access to the record fails.  A remote call that fails changes nothing.  *)
(***************************************************************************)
RemoteCallsOf(k) ==
    CASE k = "bucket" -> {"MakeBucket", "SetBucketQuota", "GetBucketQuota"}
      [] k = "bucketLegacy" -> {"BucketExists", "MakeBucket", "SetBucketQuota", "GetBucketQuota"}
      [] k = "policy" -> {"AddCannedPolicy", "InfoCannedPolicyV2", "RemoveCannedPolicy"}
      [] k = "user" -> {"SetUser", "GetUserInfo", "AttachPolicy", "DetachPolicy", "RemoveUser"}

\* r.Get at the start, r.Update, the re-fetching r.Get, r.Status().Update,
\* and the unchecked r.Update that writes Spec.Content
Writes == {"get", "update", "reget", "status"}

\* the policy reconciler also has an unchecked r.Update that writes Spec.Content:
\* it alone may fail ("specUpdate"), or the record was edited after the pass read
\* it and every write of the pass is rejected ("conflict")
WritesOf(k) == IF k = "policy" THEN Writes \cup {"specUpdate", "conflict"} ELSE Writes

\* the remote calls whose error is only logged: the pass goes on after them
LoggedOnly == {"BucketExists", "GetBucketQuota"}

\* the texts a failing call may carry: two where a failure can follow a
\* failure and replace its message; the user reconciler writes a message in
\* Creating and Ready only, and a record in Error runs neither again
ErrTextsOf(k) == IF k = "user" THEN {"e1"} ELSE ErrTexts

\* no remote failure and any one record failure; or one remote failure, after
\* which the pass writes the status at most (any record access for a call
\* whose error is only logged)
AllFaults(k) ==
    [remote : {"none"}, write : {"none"} \cup WritesOf(k), err : {"e1"}]
    \cup [remote : RemoteCallsOf(k), write : {"none", "status"}, err : ErrTextsOf(k)]
    \cup [remote : RemoteCallsOf(k) \cap LoggedOnly, write : {"update", "reget"}, err : {"e1"}]

NoFault == [remote |-> "none", write |-> "none", err |-> "e1"]

NoFaults(k) == {NoFault}

Call(f, name, res, r) == IF f.remote = name THEN Err(r, f.err) ELSE res

Out(c, r, l) == [cr |-> c, remote |-> r, last |-> l, pc |-> "idle"]

Called(l, names) == [l EXCEPT !.calls = @ \cup names]

RemoteFailed(l) == [l EXCEPT !.remoteFailed = TRUE]

\* the access `w` to the record fails: it is the one access chosen to fail, or
\* the context of the pass was cancelled before it
Rejected(f, w) == f.write \in {w, "cancelled"}

\* a failed read or write of the record: the pass returns the error
WriteFailed(l) == [l EXCEPT !.result = "error", !.writeFailed = TRUE, !.err = WriteErr]

\* initializeEnvs: the error it returns, "" for none.  The environment of the
\* process does not change, so the values it keeps in the package variables
\* are the values of the environment
initializeEnvs(e) ==
    IF ~e.endpoint THEN EndpointMustBeSetMsg
    ELSE IF ~e.accessKeyID THEN AccessKeyMustBeSetMsg
    ELSE IF ~e.secretAccessKey THEN SecretKeyMustBeSetMsg
    ELSE IF e.useSSL = "other" THEN UseSSLParseMsg
    ELSE ""

\* the error of getClient / getAdminClient (common.go); the legacy bucket
\* reconciler builds its client from constants
ClientErr(k, e) == IF k = "bucketLegacy" THEN "" ELSE initializeEnvs(e)

ClientAvailable(k, e) == ClientErr(k, e) = ""

\* a mutant of setErrorState: an existing message is kept
setErrorState_keepFirst(c, r, l, e, f) ==
    IF Rejected(f, "status") THEN Out(c, r, WriteFailed(l))
    ELSE Out([c EXCEPT !.state = typeError, !.message = IF @ = "" THEN e ELSE @], r, [l EXCEPT !.result = "error", !.err = e])

\* setBucketErrorState, setPolicyErrorState, setUserErrorState
setErrorState(c, r, l, e, f) ==
    IF Rejected(f, "status") THEN Out(c, r, WriteFailed(l))
    ELSE Out([c EXCEPT !.state = typeError, !.message = e], r, [l EXCEPT !.result = "error", !.err = e])

\* a mutant of Unset: Creating is written and the pass returns without a requeue
Unset_noRequeue(c, r, f) ==
    IF Rejected(f, "status") THEN Out(c, r, WriteFailed(L("Unset")))
    ELSE Out([c EXCEPT !.state = typeCreating], r, L("Unset"))

\* if cr.Status.State == "": set Creating and requeue
Unset(c, r, f) ==
    IF Rejected(f, "status") THEN Out(c, r, WriteFailed(L("Unset")))
    ELSE Out([c EXCEPT !.state = typeCreating], r, [L("Unset") EXCEPT !.result = "requeue"])

\* cr.Status.State = typeReady; r.Status().Update; return Requeue
StatusReady(c, r, l, f, result) ==
    IF Rejected(f, "status") THEN Out(c, r, WriteFailed(l))
    ELSE Out([c EXCEPT !.state = typeReady], r, [l EXCEPT !.result = result])

\* the r.Update that adds the finalizer fails when the write fails, and the API
\* server accepts no new finalizer on a record that is marked for deletion
AddFinalizerRejected(c, f) == Rejected(f, "update") \/ c.deletion

\* a mutant of AddFinalizerThenReady: Ready is written without the finalizer
AddFinalizerThenReady_skip(c, r, l, f) == StatusReady(c, r, l, f, "requeue")

\* the end of the bucket and policy Creating step: add the finalizer with
\* r.Update, re-fetch the record, write Ready
AddFinalizerThenReady(c, r, l, f) ==
    IF c.finalizer THEN StatusReady(c, r, l, f, "requeue")
    ELSE IF AddFinalizerRejected(c, f) THEN Out(c, r, WriteFailed(l))
    ELSE IF Rejected(f, "reget") THEN Out([c EXCEPT !.finalizer = TRUE], r, WriteFailed(l))
    ELSE StatusReady([c EXCEPT !.finalizer = TRUE], r, l, f, "requeue")

\* a mutant of DeletionTail: the finalizer is removed before Degraded is written
DeletionTail_finalizerFirst(c, r, l, f, refetch) ==
    IF Rejected(f, "update") THEN Out(c, r, WriteFailed(l))
    ELSE IF Rejected(f, "status") THEN Out([c EXCEPT !.finalizer = FALSE], r, WriteFailed(l))
    ELSE Out([c EXCEPT !.finalizer = FALSE, !.state = typeDegraded], r, l)

\* after the finalizer operations succeeded: (the legacy bucket reconciler
\* re-fetches the record,) write Degraded, remove the finalizer with r.Update
DeletionTail(c, r, l, f, refetch) ==
    IF refetch /\ Rejected(f, "reget") THEN Out(c, r, WriteFailed(l))
    ELSE IF Rejected(f, "status") THEN Out(c, r, WriteFailed(l))
    ELSE IF Rejected(f, "update") THEN Out([c EXCEPT !.state = typeDegraded], r, WriteFailed(l))
    ELSE Out([c EXCEPT !.state = typeDegraded, !.finalizer = FALSE], r, l)

\* a mutant of BranchOf: the deletion check comes first
BranchOf_deletionFirst(c) ==
    IF c.deletion THEN "Deletion"
    ELSE IF c.state = typeUnset THEN "Unset"
    ELSE IF c.state = typeCreating THEN "Creating"
    ELSE IF c.state \in {typeReady, typeUpdating, typeError} THEN c.state
    ELSE "None"

\* a mutant of BranchOf: a record in Error runs the Creating step again
BranchOf_errorRetries(c) ==
    IF c.state \in {typeUnset} THEN "Unset"
    ELSE IF c.state \in {typeCreating, typeError} THEN "Creating"
    ELSE IF c.deletion THEN "Deletion"
    ELSE IF c.state \in {typeReady, typeUpdating} THEN c.state
    ELSE "None"

\* a mutant of BranchOf: the Error branch is tested before the deletion check
BranchOf_errorFirst(c) ==
    IF c.state = typeUnset THEN "Unset"
    ELSE IF c.state = typeCreating THEN "Creating"
    ELSE IF c.state = typeError THEN typeError
    ELSE IF c.deletion THEN "Deletion"
    ELSE IF c.state \in {typeReady, typeUpdating} THEN c.state
    ELSE "None"

\* the order of the branches of Reconcile
BranchOf(c) ==
    IF c.state = typeUnset THEN "Unset"
    ELSE IF c.state = typeCreating THEN "Creating"
    ELSE IF c.deletion THEN "Deletion"
    ELSE IF c.state \in {typeReady, typeUpdating, typeError} THEN c.state
    ELSE "None"

(***************************************************************************)
(* Bucket reconciler (src/unnamed/part_003) and its legacy version         *)
(* (src/internal/controller/bucket_controller.go).                         *)
(***************************************************************************)
\* a mutant of AlreadyOwned: the answer of an existing bucket is not tolerated
AlreadyOwned_never(e) == FALSE

\* strings.Contains(err.Error(), "Your previous request ... you already own it")
AlreadyOwned(e) == e = AlreadyOwnedMsg

\* if cr.Spec.Quota != 0 { setQuota } and the rest of the Creating step
QuotaThenFinalizer(c, r, l, f) ==
    IF c.spec.quota = 0 THEN AddFinalizerThenReady(c, r, l, f)
    ELSE LET sq == Call(f, "SetBucketQuota", SetBucketQuota(r, c.spec.quota), r)
             l2 == Called(l, {"SetBucketQuota"})
         IN  IF sq.err # "" THEN setErrorState(c, sq.remote, RemoteFailed(l2), sq.err, f)
             ELSE AddFinalizerThenReady(c, sq.remote, l2, f)

\* Creating: MakeBucket (an owned bucket is tolerated), quota, finalizer, Ready
BucketCreating(c, r, e, f) ==
    IF ~ClientAvailable("bucket", e) THEN setErrorState(c, r, L("Creating"), ClientErr("bucket", e), f)
    ELSE LET mk == Call(f, "MakeBucket", MakeBucket(r), r)
             l1 == Called(L("Creating"), {"MakeBucket"})
         IN  IF mk.err # "" /\ ~AlreadyOwned(mk.err) THEN setErrorState(c, mk.remote, RemoteFailed(l1), mk.err, f)
             ELSE QuotaThenFinalizer(c, mk.remote, l1, f)

\* legacy Creating: BucketExists (an error is only logged); a bucket that is
\* found is neither created nor given its quota
LegacyBucketCreating(c, r, e, f) ==
    LET found == f.remote # "BucketExists" /\ r.exists
        l0 == Called(L("Creating"), {"BucketExists"})
        l1 == IF f.remote = "BucketExists" THEN RemoteFailed(l0) ELSE l0
    IN  IF found THEN AddFinalizerThenReady(c, r, l1, f)
        ELSE LET mk == Call(f, "MakeBucket", MakeBucket(r), r)
                 l2 == Called(l1, {"MakeBucket"})
             IN  IF mk.err # "" THEN setErrorState(c, mk.remote, RemoteFailed(l2), mk.err, f)
                 ELSE QuotaThenFinalizer(c, mk.remote, l2, f)

\* readEmptyBucketOnDelete: unset is false; a text that is no boolean is an error
readEmptyBucketOnDelete(e) ==
    CASE e.emptyBucketOnDelete = "unset" -> [value |-> FALSE, err |-> ""]
      [] e.emptyBucketOnDelete = "true" -> [value |-> TRUE, err |-> ""]
      [] e.emptyBucketOnDelete = "false" -> [value |-> FALSE, err |-> ""]
      [] OTHER -> [value |-> FALSE, err |-> EmptyOnDeleteParseMsg]

\* a mutant of EmptyOnDelete: buckets are always drained
EmptyOnDelete_always(k, c, e) == TRUE

\* whether the deletion may drain the bucket: the environment switch, or
\* Spec.EmptyOnDelete in the legacy version
EmptyOnDelete(k, c, e) == IF k = "bucketLegacy" THEN c.spec.emptyOnDelete ELSE readEmptyBucketOnDelete(e).value

\* a mutant of BucketDeletion: the finalizer operations run whether or not the
\* record carries the finalizer
BucketDeletion_noFinalizerTest(k, c, r, e, f) ==
    IF ~ClientAvailable(k, e) THEN setErrorState(c, r, L("Deletion"), ClientErr(k, e), f)
    ELSE IF k = "bucket" /\ readEmptyBucketOnDelete(e).err # "" THEN setErrorState(c, r, L("Deletion"), readEmptyBucketOnDelete(e).err, f)
    ELSE [cr |-> c, remote |-> r, last |-> [L("Deletion") EXCEPT !.result = "running"], pc |-> "RemoveBucket"]

\* Deletion, up to the loop of finalizerOpsForBucket
BucketDeletion(k, c, r, e, f) ==
    IF ~c.finalizer THEN Out(c, r, L("Deletion"))
    ELSE IF ~ClientAvailable(k, e) THEN setErrorState(c, r, L("Deletion"), ClientErr(k, e), f)
    ELSE IF k = "bucket" /\ readEmptyBucketOnDelete(e).err # "" THEN setErrorState(c, r, L("Deletion"), readEmptyBucketOnDelete(e).err, f)
    ELSE [cr |-> c, remote |-> r, last |-> [L("Deletion") EXCEPT !.result = "running"], pc |-> "RemoveBucket"]

\* what a removal call answered: success, "does not exist", or a failure
RemovalAnswer(e) == IF e = "" THEN "ok" ELSE IF e = DoesNotExistMsg THEN "absent" ELSE "failed"

\* a mutant of RemovalTolerated: any answer of RemoveBucket ends the loop as a success
RemovalTolerated_any(e) == TRUE

\* err == nil || strings.Contains(err.Error(), "does not exist")
RemovalTolerated(e) == e = "" \/ e = DoesNotExistMsg

\* one turn of the loop: RemoveBucket, then leave the loop or go on to drain
LoopRemoveBucket(k, c, r, e, l, f) ==
    LET rb == Call(f, "RemoveBucket", RemoveBucket(r), r)
        l1 == Called(l, {"RemoveBucket"})
    IN  IF RemovalTolerated(rb.err)
        THEN DeletionTail(c, rb.remote, [l1 EXCEPT !.result = "done", !.removal = RemovalAnswer(rb.err), !.event = TRUE], f, k = "bucketLegacy")
        ELSE IF rb.err = NotEmptyMsg /\ EmptyOnDelete(k, c, e)
        THEN [cr |-> c, remote |-> rb.remote, last |-> l1, pc |-> "RemoveObjects"]
        ELSE setErrorState(c, rb.remote, [RemoteFailed(l1) EXCEPT !.removal = RemovalAnswer(rb.err)], rb.err, f)

\* Ready: GetBucketQuota (an error is only logged and leaves quota.Quota 0),
\* Updating if it differs from Spec.Quota
BucketReady(k, c, r, e, f) ==
    IF ~ClientAvailable(k, e) THEN setErrorState(c, r, L("Ready"), ClientErr(k, e), f)
    ELSE LET failed == f.remote = "GetBucketQuota" \/ ~r.exists
             quota == IF failed THEN 0 ELSE r.quota
             l0 == Called(L("Ready"), {"GetBucketQuota"})
             l1 == IF failed THEN RemoteFailed(l0) ELSE l0
         IN  IF quota # c.spec.quota
             THEN IF Rejected(f, "status") THEN Out(c, r, WriteFailed(l1))
                  ELSE Out([c EXCEPT !.state = typeUpdating], r, l1)
             ELSE Out(c, r, l1)

\* a mutant of BucketUpdating: Ready is written without setting the quota
BucketUpdating_noQuota(k, c, r, e, f) == StatusReady(c, r, L("Updating"), f, "done")

\* Updating: setQuota, Ready
BucketUpdating(k, c, r, e, f) ==
    IF ~ClientAvailable(k, e) THEN setErrorState(c, r, L("Updating"), ClientErr(k, e), f)
    ELSE LET sq == Call(f, "SetBucketQuota", SetBucketQuota(r, c.spec.quota), r)
             l1 == Called(L("Updating"), {"SetBucketQuota"})
         IN  IF sq.err # "" THEN setErrorState(c, sq.remote, RemoteFailed(l1), sq.err, f)
             ELSE StatusReady(c, sq.remote, l1, f, "done")

\* BucketReconciler.Reconcile after a successful r.Get of an existing record
BucketPass(k, c, r, e, f) ==
    CASE BranchOf(c) = "Unset" -> Unset(c, r, f)
      [] BranchOf(c) = "Creating" -> IF k = "bucket" THEN BucketCreating(c, r, e, f) ELSE LegacyBucketCreating(c, r, e, f)
      [] BranchOf(c) = "Deletion" -> BucketDeletion(k, c, r, e, f)
      [] BranchOf(c) = typeReady -> BucketReady(k, c, r, e, f)
      [] BranchOf(c) = typeUpdating -> BucketUpdating(k, c, r, e, f)
      [] OTHER -> Out(c, r, L(BranchOf(c)))

(***************************************************************************)
(* Policy reconciler (src/unnamed/part_004).                               *)
(***************************************************************************)
\* the forms in which the server may store a submitted document
ServerForms(content) == {d \in RemoteDocs : JSONValue(d) = JSONValue(content)}

\* a rejected write of an edited record also rejects r.Status().Update
AsStatus(f) == IF f.write = "conflict" THEN [f EXCEPT !.write = "status"] ELSE f

\* a mutant of SubmitAndCanonicalize: Spec.Content is overwritten before the
\* read-back is known to have succeeded
SubmitAndCanonicalize_early(c, r, e, f, srv, l) ==
    IF ~ClientAvailable("policy", e) THEN [failed |-> TRUE, out |-> setErrorState(c, r, l, ClientErr("policy", e), AsStatus(f))]
    ELSE LET add == Call(f, "AddCannedPolicy", AddCannedPolicy(r, srv), r)
             l1 == Called(l, {"AddCannedPolicy"})
             l2 == Called(l1, {"InfoCannedPolicyV2"})
             held == [c EXCEPT !.spec.content = MarshalRaw(add.remote.doc)]
             lost == f.write \in {"specUpdate", "conflict"}
         IN  IF add.err # "" THEN [failed |-> TRUE, out |-> setErrorState(c, add.remote, RemoteFailed(l1), add.err, AsStatus(f))]
             ELSE IF f.remote = "InfoCannedPolicyV2" THEN [failed |-> TRUE, out |-> setErrorState(held, add.remote, RemoteFailed(l2), f.err, AsStatus(f))]
             ELSE [failed |-> FALSE, stored |-> IF lost THEN c ELSE held, held |-> held, remote |-> add.remote,
                   last |-> IF lost THEN [l2 EXCEPT !.writeFailed = TRUE, !.dropped = TRUE] ELSE l2]

\* AddCannedPolicy, InfoCannedPolicyV2, json.Marshal, Spec.Content overwritten
\* with an unchecked r.Update.  The result is either the outcome of a failed
\* pass, or the record as stored and as held in memory when the pass goes on.
SubmitAndCanonicalize(c, r, e, f, srv, l) ==
    IF ~ClientAvailable("policy", e) THEN [failed |-> TRUE, out |-> setErrorState(c, r, l, ClientErr("policy", e), AsStatus(f))]
    ELSE LET add == Call(f, "AddCannedPolicy", AddCannedPolicy(r, srv), r)
             l1 == Called(l, {"AddCannedPolicy"})
             l2 == Called(l1, {"InfoCannedPolicyV2"})
             held == [c EXCEPT !.spec.content = MarshalRaw(add.remote.doc)]
             lost == f.write \in {"specUpdate", "conflict"}
         IN  IF add.err # "" THEN [failed |-> TRUE, out |-> setErrorState(c, add.remote, RemoteFailed(l1), add.err, AsStatus(f))]
             ELSE IF f.remote = "InfoCannedPolicyV2" THEN [failed |-> TRUE, out |-> setErrorState(c, add.remote, RemoteFailed(l2), f.err, AsStatus(f))]
             ELSE [failed |-> FALSE, stored |-> IF lost THEN c ELSE held, held |-> held, remote |-> add.remote,
                   last |-> IF lost THEN [l2 EXCEPT !.writeFailed = TRUE, !.dropped = TRUE] ELSE l2]

\* Creating: the policy is submitted and read back, then finalizer and Ready.
\* The r.Update that adds the finalizer writes the held Spec.Content as well.
PolicyCreating(c, r, e, f, srv) ==
    LET s == SubmitAndCanonicalize(c, r, e, f, srv, L("Creating"))
    IN  IF s.failed THEN s.out
        ELSE IF f.write = "conflict" THEN Out(s.stored, s.remote, WriteFailed(s.last))
        ELSE IF s.stored.finalizer THEN StatusReady(s.stored, s.remote, s.last, f, "requeue")
        ELSE IF AddFinalizerRejected(s.stored, f) THEN Out(s.stored, s.remote, WriteFailed(s.last))
        ELSE AddFinalizerThenReady(s.held, s.remote, s.last, f)

\* Updating: the policy is submitted and read back, then Ready
PolicyUpdating(c, r, e, f, srv) ==
    LET s == SubmitAndCanonicalize(c, r, e, f, srv, L("Updating"))
    IN  IF s.failed THEN s.out
        ELSE IF f.write = "conflict" THEN Out(s.stored, s.remote, WriteFailed(s.last))
        ELSE StatusReady(s.stored, s.remote, s.last, f, "done")

\* Ready: InfoCannedPolicyV2, equivalentPolicies, Updating if not equivalent
PolicyReady(c, r, e, f) ==
    IF ~ClientAvailable("policy", e) THEN setErrorState(c, r, L("Ready"), ClientErr("policy", e), AsStatus(f))
    ELSE LET l1 == Called(L("Ready"), {"InfoCannedPolicyV2"})
             info == Call(f, "InfoCannedPolicyV2", IF r.exists THEN Ok(r) ELSE Err(r, DoesNotExistMsg), r)
         IN  IF info.err # "" THEN setErrorState(c, r, RemoteFailed(l1), info.err, AsStatus(f))
             ELSE IF ~equivalentPolicies(r.doc, c.spec.content)
             THEN IF f.write \in {"status", "conflict"} THEN Out(c, r, WriteFailed(l1))
                  ELSE Out([c EXCEPT !.state = typeUpdating], r, l1)
             ELSE Out(c, r, l1)

\* finalizerOpsForPolicy: RemoveCannedPolicy; every error is returned
finalizerOpsForPolicy(r, e, f) ==
    IF ~ClientAvailable("policy", e) THEN Err(r, ClientErr("policy", e))
    ELSE Call(f, "RemoveCannedPolicy", RemoveCannedPolicy(r), r)

\* Deletion: finalizer operations, Degraded, finalizer removed
PolicyDeletion(c, r, e, f) ==
    IF ~c.finalizer THEN Out(c, r, L("Deletion"))
    ELSE LET ops == finalizerOpsForPolicy(r, e, f)
             l1 == IF ClientAvailable("policy", e) THEN Called(L("Deletion"), {"RemoveCannedPolicy"}) ELSE L("Deletion")
             f2 == AsStatus(f)
         IN  IF ops.err # "" THEN setErrorState(c, ops.remote, [RemoteFailed(l1) EXCEPT !.removal = IF ClientAvailable("policy", e) THEN RemovalAnswer(ops.err) ELSE "none"], ops.err, f2)
             ELSE DeletionTail(c, ops.remote, [l1 EXCEPT !.removal = "ok", !.event = TRUE], f2, FALSE)

\* PolicyReconciler.Reconcile after a successful r.Get of an existing record
PolicyPass(c, r, e, f, srv) ==
    CASE BranchOf(c) = "Unset" -> Unset(c, r, AsStatus(f))
      [] BranchOf(c) = "Creating" -> PolicyCreating(c, r, e, f, srv)
      [] BranchOf(c) = "Deletion" -> PolicyDeletion(c, r, e, f)
      [] BranchOf(c) = typeReady -> PolicyReady(c, r, e, f)
      [] BranchOf(c) = typeUpdating -> PolicyUpdating(c, r, e, f, srv)
      [] OTHER -> Out(c, r, L(BranchOf(c)))

(***************************************************************************)
(* User reconciler (src/unnamed/part_005).                                 *)
(***************************************************************************)
\* a mutant of NoNetEffect: the answer is not tolerated
NoNetEffect_never(e) == FALSE

\* strings.Contains(err.Error(), "policy update has no net effect")
NoNetEffect(e) == e = NoNetEffectMsg

\* a mutant of PolicyActionEnabled: the account status is not looked at
PolicyActionEnabled_always(c) == TRUE

\* cr.Spec.AccountStatus == "enabled", the test in front of every attach and
\* detach call
PolicyActionEnabled(c) == c.spec.accountStatus = "enabled"

\* Creating: SetUser, finalizer, AttachPolicy of Spec.Policies for an enabled
\* account, re-fetch, Ready
UserCreating(c, r, e, f) ==
    IF ~ClientAvailable("user", e) THEN setErrorState(c, r, L("Creating"), ClientErr("user", e), f)
    ELSE LET su == Call(f, "SetUser", SetUser(r, c.spec.accountStatus), r)
             l1 == Called(L("Creating"), {"SetUser"})
         IN  IF su.err # "" THEN setErrorState(c, su.remote, RemoteFailed(l1), su.err, f)
             ELSE IF ~c.finalizer /\ AddFinalizerRejected(c, f) THEN Out(c, su.remote, WriteFailed(l1))
             ELSE LET c1 == [c EXCEPT !.finalizer = TRUE]
                      attach == PolicyActionEnabled(c) /\ Len(c.spec.policies) > 0
                      ap == IF attach THEN Call(f, "AttachPolicy", AttachPolicy(su.remote, c.spec.policies), su.remote) ELSE Ok(su.remote)
                      l2 == IF attach THEN [Called(l1, {"AttachPolicy"}) EXCEPT !.attach = c.spec.policies] ELSE l1
                  IN  IF ap.err # "" /\ ~NoNetEffect(ap.err) THEN setErrorState(c1, ap.remote, RemoteFailed(l2), ap.err, f)
                      ELSE IF Rejected(f, "reget") THEN Out(c1, ap.remote, WriteFailed(l2))
                      ELSE StatusReady(c1, ap.remote, l2, f, "requeue")

\* a mutant of UserReady: a difference between Spec.Policies and the attached
\* policies is recorded as State = Updating, the way the bucket reconciler
\* records a quota that differs
UserReady_marksUpdating(c, r, e, f) ==
    LET diff == arrayDifference(c.spec.policies, SplitPolicyName(r.attached))
        l1 == Called(L("Ready"), {"SetUser", "GetUserInfo"})
    IN  IF Len(diff.missing) + Len(diff.additional) > 0 /\ ~Rejected(f, "status")
        THEN Out([c EXCEPT !.state = typeUpdating], r, l1)
        ELSE Out(c, r, l1)

\* Ready: SetUser again, GetUserInfo, arrayDifference, DetachPolicy and
\* AttachPolicy for an enabled account; the state is not written
UserReady(c, r, e, f) ==
    IF ~ClientAvailable("user", e) THEN setErrorState(c, r, L("Ready"), ClientErr("user", e), f)
    ELSE LET su == Call(f, "SetUser", SetUser(r, c.spec.accountStatus), r)
             l1 == Called(L("Ready"), {"SetUser"})
         IN  IF su.err # "" THEN setErrorState(c, su.remote, RemoteFailed(l1), su.err, f)
             ELSE LET gi == Call(f, "GetUserInfo", Ok(su.remote), su.remote)
                      l2 == Called(l1, {"GetUserInfo"})
                      diff == arrayDifference(c.spec.policies, SplitPolicyName(su.remote.attached))
                      toDetach == diff.missing
                      toAttach == diff.additional
                      enabled == PolicyActionEnabled(c)
                      doDetach == enabled /\ Len(toDetach) > 0
                      doAttach == enabled /\ Len(toAttach) > 0
                      dp == IF doDetach THEN Call(f, "DetachPolicy", DetachPolicy(su.remote, toDetach), su.remote) ELSE Ok(su.remote)
                      l3 == IF doDetach THEN [Called(l2, {"DetachPolicy"}) EXCEPT !.detach = toDetach] ELSE l2
                      ap == IF doAttach THEN Call(f, "AttachPolicy", AttachPolicy(dp.remote, toAttach), dp.remote) ELSE Ok(dp.remote)
                      l4 == IF doAttach THEN [Called(l3, {"AttachPolicy"}) EXCEPT !.attach = toAttach] ELSE l3
                  IN  IF gi.err # "" THEN setErrorState(c, gi.remote, RemoteFailed(l2), gi.err, f)
                      ELSE IF dp.err # "" THEN setErrorState(c, dp.remote, RemoteFailed(l3), dp.err, f)
                      ELSE IF ap.err # "" THEN setErrorState(c, ap.remote, RemoteFailed(l4), ap.err, f)
                      ELSE Out(c, ap.remote, l4)

\* finalizerOpsForUser: RemoveUser; "does not exist" is tolerated
finalizerOpsForUser(r, e, f) ==
    IF ~ClientAvailable("user", e) THEN Err(r, ClientErr("user", e))
    ELSE LET ru == Call(f, "RemoveUser", RemoveUser(r), r)
         IN  IF ru.err = DoesNotExistMsg THEN Ok(ru.remote) ELSE ru

\* Deletion: a failure of the finalizer operations is only requeued
UserDeletion(c, r, e, f) ==
    IF ~c.finalizer THEN Out(c, r, L("Deletion"))
    ELSE LET ops == finalizerOpsForUser(r, e, f)
             l1 == IF ClientAvailable("user", e) THEN Called(L("Deletion"), {"RemoveUser"}) ELSE L("Deletion")
         IN  IF ops.err # "" THEN Out(c, ops.remote, [RemoteFailed(l1) EXCEPT !.removal = IF ClientAvailable("user", e) THEN "failed" ELSE "none", !.result = "requeue"])
             ELSE DeletionTail(c, ops.remote, [l1 EXCEPT !.removal = IF r.exists THEN "ok" ELSE "absent", !.event = TRUE], f, FALSE)

\* UserReconciler.Reconcile after a successful r.Get of an existing record;
\* it has no Updating branch
UserPass(c, r, e, f) ==
    CASE BranchOf(c) = "Unset" -> Unset(c, r, f)
      [] BranchOf(c) = "Creating" -> UserCreating(c, r, e, f)
      [] BranchOf(c) = "Deletion" -> UserDeletion(c, r, e, f)
      [] BranchOf(c) = typeReady -> UserReady(c, r, e, f)
      [] BranchOf(c) = typeUpdating -> Out(c, r, L("None"))
      [] OTHER -> Out(c, r, L(BranchOf(c)))

(***************************************************************************)
(* The actions.                                                            *)
(***************************************************************************)
\* r.Get at the start of Reconcile: a record that is gone ends the pass, a
\* failed read returns the error; otherwise the pass `o` runs
AfterGet(c, r, f, o) ==
    IF ~c.present THEN Out(c, r, L("NotFound"))
    ELSE IF f.write = "get" THEN Out(c, r, WriteFailed(L("Get")))
    ELSE o

Apply(o) ==
    /\ cr' = o.cr
    /\ remote' = o.remote
    /\ last' = o.last
    /\ pc' = o.pc
    /\ UNCHANGED <<pair, provider, kind, env>>

\* one pass of BucketReconciler.Reconcile, up to its return or to the loop
BucketReconcileWith(F) ==
    /\ kind \in BucketKinds
    /\ pc = "idle"
    /\ \E f \in F : Apply(AfterGet(cr, remote, f, BucketPass(kind, cr, remote, env, f)))

\* the loop of finalizerOpsForBucket: client.RemoveBucket and what follows it
LoopRemoveBucketWith(F) ==
    /\ pc = "RemoveBucket"
    /\ \E f \in F : Apply(LoopRemoveBucket(kind, cr, remote, env, last, f))

\* the loop of finalizerOpsForBucket: ListObjects with versions, RemoveObjects
\* with GovernanceBypass; objects under a lock stay, errors are not read
LoopRemoveObjects ==
    /\ pc = "RemoveObjects"
    /\ \E n \in 0..remote.objects :
          /\ (remote.objects > 0 => n < remote.objects)
          /\ remote' = [remote EXCEPT !.objects = n]
    /\ last' = Called(last, {"ListObjects", "RemoveObjects"})
    /\ pc' = "RemoveBucket"
    /\ UNCHANGED <<pair, provider, kind, cr, env>>

\* one pass of PolicyReconciler.Reconcile
PolicyReconcileWith(F) ==
    /\ kind = "policy"
    /\ pc = "idle"
    /\ \E f \in F, srv \in ServerForms(cr.spec.content) : Apply(AfterGet(cr, remote, f, PolicyPass(cr, remote, env, f, srv)))

\* one pass of UserReconciler.Reconcile
UserReconcileWith(F) ==
    /\ kind = "user"
    /\ pc = "idle"
    /\ \E f \in F : Apply(AfterGet(cr, remote, f, UserPass(cr, remote, env, f)))

BucketReconcile == BucketReconcileWith(AllFaults(kind))

\* the faults of one turn of the loop and of the writes that follow it
LoopFaults ==
    [remote : {"none"}, write : {"none", "reget", "status", "update"}, err : {"e1"}]
    \cup [remote : {"RemoveBucket"}, write : {"none", "status"}, err : ErrTexts]

\* the context handed to Reconcile is cancelled while the first remote call of
\* the pass is in flight: the remote calls run under context.Background() and
\* are not touched by it, every access to the record made with ctx fails
CancelFault == [remote |-> "none", write |-> "cancelled", err |-> "e1"]

\* one pass of BucketReconciler.Reconcile whose context is cancelled during
\* its first remote call
BucketReconcileCancelled ==
    /\ kind \in BucketKinds
    /\ pc = "idle"
    /\ cr.present
    /\ LET o == BucketPass(kind, cr, remote, env, CancelFault)
       IN  /\ o.last.calls # {} \/ o.pc = "RemoveBucket"
           /\ Apply([o EXCEPT !.last.cancelled = TRUE])

\* a turn of the loop in a cancelled pass goes on as before, and the access
\* to the record that follows the loop fails
LoopRemoveBucketStep == LoopRemoveBucketWith(IF last.cancelled THEN {CancelFault} ELSE LoopFaults)

PolicyReconcile == PolicyReconcileWith(AllFaults(kind))

UserReconcile == UserReconcileWith(AllFaults(kind))

(***************************************************************************)
(* The environment: the owner of the record, the API server, and whoever   *)
(* else uses the MinIO deployment.                                         *)
(***************************************************************************)
EnvLast == [Last0 EXCEPT !.step = "env"]

\* kubectl delete: the deletion timestamp is set
RequestDeletion ==
    /\ pc = "idle"
    /\ cr.present /\ ~cr.deletion
    /\ cr' = [cr EXCEPT !.deletion = TRUE]
    /\ last' = EnvLast
    /\ UNCHANGED <<pair, provider, kind, remote, env, pc>>

\* a record marked for deletion that carries no finalizer may be erased
Erasable == cr.present /\ cr.deletion /\ ~cr.finalizer

Erase ==
    /\ pc = "idle"
    /\ Erasable
    /\ cr' = [cr EXCEPT !.present = FALSE]
    /\ last' = EnvLast
    /\ UNCHANGED <<pair, provider, kind, remote, env, pc>>

\* the edits of one Spec field: another quota, the switch flipped, another
\* document, one policy appended or the last one dropped, the status flipped
EditsOf(k, s) ==
    CASE k \in BucketKinds -> {[s EXCEPT !.quota = q] : q \in Quotas} \cup (IF k = "bucketLegacy" THEN {[s EXCEPT !.emptyOnDelete = ~@]} ELSE {})
      [] k = "policy" -> {[s EXCEPT !.content = d] : d \in Docs}
      [] k = "user" -> (IF Len(s.policies) < MaxPolicies THEN {[s EXCEPT !.policies = Append(@, n)] : n \in PolicyNames \cup {""}} ELSE {})
                       \cup (IF Len(s.policies) > 0 THEN {[s EXCEPT !.policies = SubSeq(@, 1, Len(@) - 1)]} ELSE {})
                       \cup {[s EXCEPT !.accountStatus = IF @ = "enabled" THEN "disabled" ELSE "enabled"]}

\* the owner edits the Spec
EditSpec ==
    /\ pc = "idle"
    /\ cr.present
    /\ \E s \in EditsOf(kind, cr.spec) \ {cr.spec} : cr' = [cr EXCEPT !.spec = s]
    /\ last' = EnvLast
    /\ UNCHANGED <<pair, provider, kind, remote, env, pc>>

\* what may happen to the remote resource outside the operator: it is removed
\* or created; a bucket gets another quota, one object more or less, a locked
\* object more or less; a policy another document; a user one policy attached
\* or detached
ChangesOf(k, r) ==
    IF ~r.exists THEN {x \in RemotesOf(k) : x.exists /\ x.objects = 0 /\ ~x.locked /\ x.quota = 0 /\ x.attached = {}}
    ELSE {Remote0} \cup
         CASE k \in BucketKinds -> {[r EXCEPT !.quota = q] : q \in Quotas}
                                   \cup {[r EXCEPT !.objects = n] : n \in {r.objects - 1, r.objects + 1} \cap 0..MaxObjects}
                                   \cup {[r EXCEPT !.locked = ~@]}
           [] k = "policy" -> {[r EXCEPT !.doc = d] : d \in RemoteDocs}
           [] k = "user" -> {[r EXCEPT !.attached = @ \cup {n}] : n \in PolicyNames} \cup {[r EXCEPT !.attached = @ \ {n}] : n \in PolicyNames}

\* the remote resource is changed, removed or created outside the operator
RemoteChange ==
    /\ \E r \in ChangesOf(kind, remote) \ {remote} :
          remote' = [r EXCEPT !.byOp = remote.byOp /\ remote.exists /\ r.exists]
    /\ last' = IF pc = "idle" THEN EnvLast ELSE last
    /\ UNCHANGED <<pair, provider, kind, cr, env, pc>>

\* the operator is deployed again while it manages the resource, and the
\* secret key it had is lost; the new process starts between two passes
Restart ==
    /\ pc = "idle"
    /\ kind # "bucketLegacy"
    /\ cr.present /\ cr.finalizer
    /\ env \notin BrokenEnvs
    /\ env' = NoSecretEnv
    /\ last' = EnvLast
    /\ UNCHANGED <<pair, provider, kind, cr, remote, pc>>

Next ==
    \/ BucketReconcile
    \/ BucketReconcileCancelled
    \/ LoopRemoveBucketStep
    \/ LoopRemoveObjects
    \/ PolicyReconcile
    \/ UserReconcile
    \/ RequestDeletion
    \/ Erase
    \/ EditSpec
    \/ RemoteChange
    \/ Restart

Spec == Init /\ [][Next]_vars

(***************************************************************************)
(* The operator alone: no remote call and no record write fails, no other  *)
(* client touches the remote resource, and the owner of the record leaves  *)
(* its Spec alone (the record may still be deleted).                       *)
(* The dispatcher delivers the record again after every change of it and   *)
(* after every requeue or error result, so a pass that can change          *)
(* something is eventually run; the loop of finalizerOpsForBucket runs in  *)
(* one goroutine from turn to turn.                                        *)
(***************************************************************************)
BucketReconcileOk == BucketReconcileWith(NoFaults(kind))

LoopRemoveBucketOk == LoopRemoveBucketWith(NoFaults(kind))

PolicyReconcileOk == PolicyReconcileWith(NoFaults(kind))

UserReconcileOk == UserReconcileWith(NoFaults(kind))

LiveNext ==
    \/ BucketReconcileOk
    \/ LoopRemoveBucketOk
    \/ LoopRemoveObjects
    \/ PolicyReconcileOk
    \/ UserReconcileOk
    \/ RequestDeletion
    \/ Erase

Fairness ==
    /\ WF_vars(BucketReconcileOk)
    /\ WF_vars(LoopRemoveBucketOk)
    /\ WF_vars(LoopRemoveObjects)
    /\ WF_vars(PolicyReconcileOk)
    /\ WF_vars(UserReconcileOk)

LiveSpec == Init /\ [][LiveNext]_vars /\ Fairness

(***************************************************************************)
(* Fair dispatch without failures, with removals outside the operator: the *)
(* remote resource of a record in Ready that is not marked for deletion is *)
(* removed by someone else.                                                *)
(***************************************************************************)
RemovedOutside ==
    /\ pc = "idle"
    /\ cr.present /\ cr.state = typeReady /\ ~cr.deletion
    /\ remote.exists
    /\ remote' = Remote0
    /\ last' = EnvLast
    /\ UNCHANGED <<pair, provider, kind, cr, env, pc>>

HealNext ==
    \/ BucketReconcileOk
    \/ LoopRemoveBucketOk
    \/ LoopRemoveObjects
    \/ PolicyReconcileOk
    \/ UserReconcileOk
    \/ RequestDeletion
    \/ Erase
    \/ RemovedOutside

HealSpec == Init /\ [][HealNext]_vars /\ Fairness

(***************************************************************************)
(* Two bucket records.  Nothing keeps two records, in one namespace or in  *)
(* two, from carrying the same Spec.Name; the reconciler is dispatched for *)
(* each record identity and its passes interleave.  Every remote call of a *)
(* pass is made on the bucket that the record's Spec.Name names.           *)
(***************************************************************************)
Ids == {"A", "B"}

BucketNames == {"n1", "n2"}

\* cr.Spec.Name of record i
NameOf(p, i) == p.name[i]

PairEnvs == {Env0, [Env0 EXCEPT !.emptyBucketOnDelete = "true"]}

PairInit ==
    /\ kind = "bucket"
    /\ cr = [present |-> FALSE, state |-> typeUnset, message |-> "", finalizer |-> FALSE, deletion |-> FALSE, spec |-> Spec0]
    /\ remote = Remote0
    /\ env \in PairEnvs
    /\ pc = "idle"
    /\ last = Last0
    /\ provider = Provider0
    /\ \E nm \in [Ids -> BucketNames], q \in [Ids -> Quotas], b \in [BucketNames -> {Remote0, [Remote0 EXCEPT !.exists = TRUE, !.objects = 1]}] :
          pair = [rec |-> [i \in Ids |-> [present |-> TRUE, state |-> typeUnset, message |-> "", finalizer |-> FALSE, deletion |-> FALSE, spec |-> [Spec0 EXCEPT !.quota = q[i]]]],
                  name |-> nm,
                  pc |-> [i \in Ids |-> "idle"],
                  last |-> [i \in Ids |-> Last0],
                  buckets |-> b,
                  acted |-> "none"]

\* the outcome `o` of a step of the pass for record i is stored: the record,
\* and the bucket that its Spec.Name names
PairApply(i, o) ==
    /\ pair' = [pair EXCEPT !.rec[i] = o.cr, !.buckets[NameOf(pair, i)] = o.remote, !.last[i] = o.last, !.pc[i] = o.pc, !.acted = i]
    /\ UNCHANGED <<kind, cr, remote, env, pc, last, provider>>

\* one pass of BucketReconciler.Reconcile for record i
PairReconcile(i) ==
    /\ pair.pc[i] = "idle"
    /\ PairApply(i, AfterGet(pair.rec[i], pair.buckets[NameOf(pair, i)], NoFault, BucketPass("bucket", pair.rec[i], pair.buckets[NameOf(pair, i)], env, NoFault)))

\* the loop of finalizerOpsForBucket in the pass for record i: RemoveBucket
PairLoopRemoveBucket(i) ==
    /\ pair.pc[i] = "RemoveBucket"
    /\ PairApply(i, LoopRemoveBucket("bucket", pair.rec[i], pair.buckets[NameOf(pair, i)], env, pair.last[i], NoFault))

\* the loop of finalizerOpsForBucket in the pass for record i: ListObjects and
\* RemoveObjects
PairLoopRemoveObjects(i) ==
    /\ pair.pc[i] = "RemoveObjects"
    /\ PairApply(i, [cr |-> pair.rec[i], remote |-> [pair.buckets[NameOf(pair, i)] EXCEPT !.objects = 0], last |-> Called(pair.last[i], {"ListObjects", "RemoveObjects"}), pc |-> "RemoveBucket"])

\* kubectl delete of record i
PairRequestDeletion(i) ==
    /\ pair.pc[i] = "idle"
    /\ pair.rec[i].present /\ ~pair.rec[i].deletion
    /\ pair' = [pair EXCEPT !.rec[i].deletion = TRUE, !.last[i] = EnvLast, !.acted = "none"]
    /\ UNCHANGED <<kind, cr, remote, env, pc, last, provider>>

\* record i, marked for deletion and without finalizer, is erased
PairErase(i) ==
    /\ pair.pc[i] = "idle"
    /\ pair.rec[i].present /\ pair.rec[i].deletion /\ ~pair.rec[i].finalizer
    /\ pair' = [pair EXCEPT !.rec[i].present = FALSE, !.last[i] = EnvLast, !.acted = "none"]
    /\ UNCHANGED <<kind, cr, remote, env, pc, last, provider>>

PairNext ==
    \E i \in Ids :
        \/ PairReconcile(i)
        \/ PairLoopRemoveBucket(i)
        \/ PairLoopRemoveObjects(i)
        \/ PairRequestDeletion(i)
        \/ PairErase(i)

PairSpec == PairInit /\ [][PairNext]_vars

(***************************************************************************)
(* The client provider (src/internal/controller/common.go), on its own:    *)
(* the reconcilers of the three kinds run in parallel and call getClient   *)
(* and getAdminClient without synchronisation.  In the passes above the    *)
(* provider appears by its result alone (ClientErr).                       *)
(***************************************************************************)
\* all environments of the provider
ProviderEnvs == [endpoint : BOOLEAN, accessKeyID : BOOLEAN, secretAccessKey : BOOLEAN, useSSL : {"unset", "true", "other"}, emptyBucketOnDelete : {"unset"}]

ClientInit ==
    /\ kind = "bucket"
    /\ cr = [present |-> FALSE, state |-> typeUnset, message |-> "", finalizer |-> FALSE, deletion |-> FALSE, spec |-> Spec0]
    /\ remote = Remote0
    /\ env \in ProviderEnvs
    /\ pc = "idle"
    /\ last = Last0
    /\ provider = Provider0
    /\ pair = Pair0

\* the first of the three settings that is absent, 4 if none
FirstMissing(e) == IF ~e.endpoint THEN 1 ELSE IF ~e.accessKeyID THEN 2 ELSE IF ~e.secretAccessKey THEN 3 ELSE 4

\* if minioClient != nil { return minioClient, nil }; otherwise on to
\* initializeEnvs.  Only the bucket reconciler calls getClient
GetClientEnter(p) ==
    /\ p = "bucket"
    /\ provider.at[p] = "idle"
    /\ provider.calls < MaxCalls
    /\ provider' = [provider EXCEPT !.calls = @ + 1, !.at[p] = IF provider.minioClient THEN "idle" ELSE "getClient"]
    /\ UNCHANGED <<kind, cr, remote, env, pc, last, pair>>

\* if minioAdminClient != nil { return minioAdminClient, nil }
GetAdminClientEnter(p) ==
    /\ provider.at[p] = "idle"
    /\ provider.calls < MaxCalls
    /\ provider' = [provider EXCEPT !.calls = @ + 1, !.at[p] = IF provider.minioAdminClient THEN "idle" ELSE "getAdminClient"]
    /\ UNCHANGED <<kind, cr, remote, env, pc, last, pair>>

\* initializeEnvs: each setting that is still empty is looked up and kept,
\* up to the first absent one; then MINIO_USE_SSL is looked up and parsed.
\* The package variables are written and read without synchronisation: a
\* goroutine other than the writer may still see them empty (seen = 0)
InitializeEnvsStep(p) ==
    /\ provider.at[p] \in {"getClient", "getAdminClient"}
    /\ \E seen \in (IF provider.keptBy \in {"none", p} THEN {provider.kept} ELSE {0, provider.kept}) :
          LET first == FirstMissing(env)
              looked == {i \in 1..3 : seen < i /\ i <= first}
              ok == initializeEnvs(env) = ""
          IN  provider' = [provider EXCEPT
                  !.lookups = [i \in 1..3 |-> IF i \in looked THEN @[i] + 1 ELSE @[i]],
                  !.sslLookups = IF first = 4 THEN @ + 1 ELSE @,
                  !.kept = IF first - 1 > seen THEN first - 1 ELSE @,
                  !.keptBy = IF first - 1 > seen THEN p ELSE @,
                  !.at[p] = IF ~ok THEN "idle" ELSE IF provider.at[p] = "getClient" THEN "minio.New" ELSE "madmin.New"]
    /\ UNCHANGED <<kind, cr, remote, env, pc, last, pair>>

\* minioClient, err := minio.New(...); return minioClient, err.  The := declares
\* a local variable: the package variable stays nil
NewClient(p) ==
    /\ provider.at[p] = "minio.New"
    /\ provider' = [provider EXCEPT !.clients = @ + 1, !.at[p] = "idle"]
    /\ UNCHANGED <<kind, cr, remote, env, pc, last, pair>>

\* minioAdminClient, err := madmin.New(...); return minioAdminClient, err
NewAdminClient(p) ==
    /\ provider.at[p] = "madmin.New"
    /\ provider' = [provider EXCEPT !.adminClients = @ + 1, !.at[p] = "idle"]
    /\ UNCHANGED <<kind, cr, remote, env, pc, last, pair>>

ClientNext ==
    \/ \E p \in Callers : GetClientEnter(p)
    \/ \E p \in Callers : GetAdminClientEnter(p)
    \/ \E p \in Callers : InitializeEnvsStep(p)
    \/ \E p \in Callers : NewClient(p)
    \/ \E p \in Callers : NewAdminClient(p)

ClientSpec == ClientInit /\ [][ClientNext]_vars

(***************************************************************************)
(* The claims.                                                             *)
(***************************************************************************)
\* the step is a pass (or a turn of the deletion loop) that met no failure
FaultFreeStep == BucketReconcileOk \/ LoopRemoveBucketOk \/ PolicyReconcileOk \/ UserReconcileOk

\* C1: cleanup before erasure: a record is never erasable (deletion requested,
\* finalizer absent) while a remote resource its reconciler created still exists
C1_CleanupBeforeErasure == ~(Erasable /\ remote.exists /\ remote.byOp)

\* C2: the finalizer is removed only in a deletion pass whose removal call
\* answered success or "does not exist", and the stored state is then Degraded;
\* a pass whose removal failed keeps the finalizer
C2_FinalizerRemovedAfterRemoval ==
    [][(cr.finalizer /\ ~cr'.finalizer) => (last'.step = "Deletion" /\ last'.removal \in {"ok", "absent"} /\ cr'.state = typeDegraded)]_vars

\* a deletion pass removed the remote resource, wrote Degraded, removed the finalizer
C2_Witness == last.step = "Deletion" /\ last.removal = "ok" /\ "RemoveBucket" \in last.calls /\ cr.state = typeDegraded /\ ~cr.finalizer

\* a non-empty bucket of a record marked for deletion, with draining disabled
\* by the switch (unset or false) or by Spec.EmptyOnDelete
DrainDisabled == IF kind = "bucketLegacy" THEN ~cr.spec.emptyOnDelete ELSE env.emptyBucketOnDelete \in {"unset", "false"}

NonEmpty == remote.exists /\ (remote.objects > 0 \/ remote.locked)

BlockedDeletion == kind \in BucketKinds /\ cr.present /\ cr.deletion /\ cr.finalizer /\ NonEmpty /\ DrainDisabled

\* C3: with draining disabled, no step of the reconciler on a record marked for
\* deletion whose bucket is non-empty removes the finalizer, makes the record
\* erasable, removes the bucket or deletes an object
C3_DrainDisabledBlocks ==
    [][(BlockedDeletion /\ ~RemoteChange) =>
        (cr'.finalizer /\ ~Erasable' /\ remote'.exists /\ remote'.objects = remote.objects /\ remote'.locked = remote.locked /\ "RemoveObjects" \notin last'.calls)]_vars

\* a deletion pass tried to remove the non-empty bucket and ended in Error
C3_Witness == BlockedDeletion /\ last.step = "Deletion" /\ "RemoveBucket" \in last.calls /\ last.removal = "failed" /\ cr.state = typeError /\ cr.message = NotEmptyMsg

\* draining enabled by the switch or by Spec.EmptyOnDelete
DrainEnabled == IF kind = "bucketLegacy" THEN cr.spec.emptyOnDelete ELSE env.emptyBucketOnDelete = "true"

DrainingDeletion == kind \in BucketKinds /\ cr.present /\ cr.deletion /\ cr.finalizer /\ NonEmpty /\ DrainEnabled /\ ClientAvailable(kind, env)

Drained == ~remote.exists /\ cr.state = typeDegraded /\ ~cr.finalizer

\* C4: with draining enabled, a bucket record marked for deletion whose bucket
\* is non-empty ends with the bucket absent, State = Degraded and the finalizer
\* removed
C4_DrainEnabledDeletes == DrainingDeletion ~> Drained

\* the same for buckets all of whose objects the batch delete can remove
C4_RemovableObjectsDrained == (DrainingDeletion /\ ~remote.locked) ~> (Drained /\ "RemoveObjects" \in last.calls)

\* C5: a pass on a record that is marked for deletion and carries the finalizer
\* runs the deletion protocol whatever Status.State is, never the Unset or the
\* Creating step
C5_DeletionRegardlessOfState ==
    [][(pc = "idle" /\ cr.present /\ cr.deletion /\ cr.finalizer /\ last'.step \notin {"env", "Get"}) => last'.step = "Deletion"]_vars

LifecycleStart == cr.present /\ cr.state = typeUnset /\ ~cr.deletion /\ ClientAvailable(kind, env)

ReadyWithResource == cr.state = typeReady /\ remote.exists /\ cr.finalizer

\* C6: under fair dispatch and without failures, a record that starts Unset and
\* is not marked for deletion reaches Creating, and from Creating it reaches
\* Ready with the remote resource existing and the finalizer present; Ready is
\* entered from Creating (or from Updating) only
C6_LifecycleLiveness ==
    /\ LifecycleStart ~> (cr.state = typeCreating \/ cr.deletion)
    /\ (cr.present /\ cr.state = typeCreating /\ ClientAvailable(kind, env)) ~> (ReadyWithResource \/ cr.deletion)
    /\ [][(cr'.state = typeReady /\ cr.state # typeReady) => cr.state \in {typeCreating, typeUpdating}]_vars

\* a Creating pass created the remote resource and left the record Ready
C6_Witness == last.step = "Creating" /\ ReadyWithResource /\ remote.byOp /\ ~cr.deletion

\* a record in Creating whose remote resource already exists
CreatingOnExisting == pc = "idle" /\ cr.present /\ cr.state = typeCreating /\ remote.exists /\ ClientAvailable(kind, env)

\* C7: the Creating step on a record whose remote resource already exists never
\* sets State = Error unless a remote call fails, and without failures the pass
\* ends in State = Ready with the finalizer present
C7_IdempotentCreation ==
    /\ [][(CreatingOnExisting /\ last'.step = "Creating" /\ ~last'.remoteFailed) => cr'.state # typeError]_vars
    /\ [][(CreatingOnExisting /\ (cr.deletion => cr.finalizer) /\ FaultFreeStep) => (cr'.state = typeReady /\ cr'.finalizer /\ remote'.exists)]_vars

\* a Creating pass on a remote resource it did not create left the record Ready
C7_Witness == last.step = "Creating" /\ cr.state = typeReady /\ cr.finalizer /\ remote.exists /\ ~remote.byOp /\ ~last.remoteFailed /\ ~last.writeFailed

\* a bucket record that is not marked for deletion and whose bucket exists
LiveBucket == kind \in BucketKinds /\ cr.present /\ ~cr.deletion /\ remote.exists /\ ClientAvailable(kind, env)

\* C8: without failures, a pass on a Ready bucket record whose Spec.Quota
\* differs from the remote quota writes Updating and leaves the remote quota;
\* a pass on Updating sets the remote quota to Spec.Quota and writes Ready; a
\* pass on Ready with the quota in place leaves State and remote as they are
C8_QuotaConvergence ==
    [][(LiveBucket /\ BucketReconcileOk) =>
        /\ (cr.state = typeReady /\ remote.quota # cr.spec.quota) => (cr'.state = typeUpdating /\ remote' = remote)
        /\ (cr.state = typeUpdating) => (cr'.state = typeReady /\ remote' = [remote EXCEPT !.quota = cr.spec.quota])
        /\ (cr.state = typeReady /\ remote.quota = cr.spec.quota) => (cr'.state = typeReady /\ remote' = remote)]_vars

\* an Updating pass set the remote quota to a Spec.Quota other than 0
C8_Witness == kind \in BucketKinds /\ last.step = "Updating" /\ "SetBucketQuota" \in last.calls /\ cr.state = typeReady /\ remote.quota = cr.spec.quota /\ cr.spec.quota > 0

\* C9: the policy Ready step moves the record to Updating exactly when
\* Spec.Content and the remote document differ as JSON values; documents that
\* differ in whitespace or key order only leave the record Ready
C9_CanonicalEquality ==
    [][(kind = "policy" /\ cr.present /\ ~cr.deletion /\ cr.state = typeReady /\ remote.exists /\ ClientAvailable(kind, env) /\ PolicyReconcileOk) =>
        (cr'.state = typeUpdating <=> JSONValue(cr.spec.content) # JSONValue(remote.doc))]_vars

\* the desired policies without the empty entries
Desired == Range(cr.spec.policies) \ {""}

\* C10: arrayDifference yields the attached policies that are not desired and
\* the desired ones that are not attached, never an empty entry; without
\* failures a Ready pass on an enabled account leaves exactly the desired
\* policies attached
C10_UserPolicyDiff ==
    /\ [](kind = "user" =>
            LET d == arrayDifference(cr.spec.policies, SplitPolicyName(remote.attached))
            IN  /\ Range(d.missing) = remote.attached \ Desired
                /\ Range(d.additional) = Desired \ remote.attached)
    /\ [][(kind = "user" /\ cr.present /\ ~cr.deletion /\ cr.state = typeReady /\ cr.spec.accountStatus = "enabled" /\ ClientAvailable(kind, env) /\ UserReconcileOk) =>
            (remote'.attached = Desired /\ Range(last'.detach) = remote.attached \ Desired /\ Range(last'.attach) = Desired \ remote.attached)]_vars

\* a Ready pass detached writeonly and attached readonly
C10_Witness == last.step = "Ready" /\ cr.spec.policies = <<"readonly", "diagnostics">> /\ last.detach = <<"writeonly">> /\ last.attach = <<"readonly">> /\ remote.attached = {"readonly", "diagnostics"}

\* the step ended a pass in which a remote call was issued and failed with an
\* answer the code does not tolerate, and every write of the record succeeded
RemoteCallFailed == pc' = "idle" /\ last'.remoteFailed /\ last'.calls # {} /\ ~last'.writeFailed

\* C11: a remote call failure that is not a tolerated answer leaves State =
\* Error and Status.Message equal to the failure's text, and the pass returns
\* an error
C11_ErrorCapture ==
    [][RemoteCallFailed => (cr'.state = typeError /\ last'.err # "" /\ cr'.message = last'.err /\ last'.result = "error")]_vars

\* the same for the failures of the user deletion pass alone
C11_UserDeletionCaptured ==
    [][(RemoteCallFailed /\ kind = "user" /\ last'.step = "Deletion") => (cr'.state = typeError /\ last'.result = "error")]_vars

\* the same without the calls whose error is only logged and without the user
\* deletion pass
C11_CapturedElsewhere ==
    [][(RemoteCallFailed /\ ~(kind = "user" /\ last'.step = "Deletion") /\ last'.calls \cap LoggedOnly = {}) =>
        (cr'.state = typeError /\ last'.err # "" /\ cr'.message = last'.err /\ last'.result = "error")]_vars

\* the record went to Error in the Updating step of the pass just finished
ErrorFromUpdating == pc = "idle" /\ last.step = "Updating" /\ last.remoteFailed /\ cr.state = typeError /\ cr.message = "e1" /\ ~cr.deletion

\* the next pass runs while the call that failed in Updating still fails, now
\* with the text e2
SameFailureAgain ==
    \/ BucketReconcileWith({[remote |-> "SetBucketQuota", write |-> "none", err |-> "e2"]})
    \/ PolicyReconcileWith({[remote |-> "AddCannedPolicy", write |-> "none", err |-> "e2"]})

\* C12: after a remote failure in Updating has set State = Error with message
\* e1, a next pass under a remote failure with message e2 leaves the record in
\* Error with Status.Message = e2
C12_MessageFreshness ==
    [][(ErrorFromUpdating /\ SameFailureAgain) => (cr'.state = typeError /\ cr'.message = "e2")]_vars

\* what the code does have: a pass on a bucket or policy record in Error that
\* issues a remote call and sees it fail replaces the message by the new text
C12_FreshWhenCalled ==
    [][(cr.state = typeError /\ kind # "user" /\ RemoteCallFailed /\ last'.calls \cap LoggedOnly = {}) => (cr'.state = typeError /\ cr'.message = last'.err)]_vars

\* such a pass exists only for a record marked for deletion
C12_CalledOnlyOnDeletion ==
    [][(cr.state = typeError /\ pc = "idle" /\ pc' = "idle" /\ last'.calls # {}) => cr.deletion]_vars

\* a remote failure of the bucket Creating step was captured into Error by the
\* pass just finished
ErrorFromBucketCreating ==
    /\ kind \in BucketKinds /\ pc = "idle" /\ cr.present /\ ~cr.deletion
    /\ last.step = "Creating" /\ last.remoteFailed /\ cr.state = typeError

\* C13: after a remote failure of the bucket Creating step was captured into
\* Error, the next pass runs the Creating step again: with the remote
\* recovered it creates the bucket, applies the quota and reaches Ready
C13_RetryOfCreating ==
    [][(ErrorFromBucketCreating /\ BucketReconcileOk) =>
        (/\ last'.step = "Creating"
         /\ cr'.state = typeReady
         /\ remote'.exists
         /\ (cr.spec.quota > 0 => remote'.quota = cr.spec.quota))]_vars

\* what the code does instead: no later pass leaves Error unless the record is
\* marked for deletion
C13_ErrorIsFinal ==
    [][(cr.state = typeError /\ cr.present /\ ~cr.deletion /\ pc = "idle" /\ pc' = "idle" /\ last'.step # "env") => cr'.state = typeError]_vars

\* the step is a pass that has read a record in Error not marked for deletion
PassOnError ==
    /\ pc = "idle" /\ cr.present /\ cr.state = typeError /\ ~cr.deletion
    /\ last'.step \notin {"env", "Get"}

\* C14: a pass on a record in State = Error that is not marked for deletion
\* issues no remote call, leaves the record (State, Message, finalizer, Spec)
\* and the remote resource as they are, and returns done
C14_ErrorNoAction ==
    [][PassOnError => (cr' = cr /\ remote' = remote /\ last'.calls = {} /\ last'.result = "done" /\ pc' = "idle")]_vars

\* a pass of the Error branch has run on a record whose message was set by a
\* failure, with or without the finalizer, for each kind
C14_Witness ==
    /\ last.step = typeError /\ last.result = "done" /\ pc = "idle"
    /\ cr.present /\ cr.state = typeError /\ cr.message \in ErrTexts /\ ~cr.deletion

\* C15: Status.Message is non-empty only in State = Error
C15_MessageOnlyInError == (cr.present /\ cr.message # "") => cr.state = typeError

\* C15, second half: a step that moves the record out of Error clears
\* Status.Message
C15_ClearedOnLeavingError ==
    [][(cr.state = typeError /\ cr'.state # typeError) => cr'.message = ""]_vars

\* what the code does instead: no step changes a message once it is set,
\* except to replace it by another failure's text
C15_MessageNeverCleared == [][cr.message # "" => cr'.message # ""]_vars

\* the step ended a deletion pass whose removal call was answered "does not
\* exist", and every write of the record succeeded
AbsentOnDelete == pc' = "idle" /\ last'.step = "Deletion" /\ last'.removal = "absent" /\ ~last'.writeFailed

\* C16: a deletion pass that finds the remote bucket, policy or user already
\* absent treats the removal as done: State becomes Degraded, the finalizer is
\* removed and no Error is recorded
C16_AbsenceIsSuccess ==
    [][AbsentOnDelete => (cr'.state = typeDegraded /\ ~cr'.finalizer /\ cr'.message = cr.message /\ last'.result = "done")]_vars

\* the same for the bucket and user kinds alone
C16_AbsenceIsSuccessBucketUser ==
    [][(AbsentOnDelete /\ kind # "policy") => (cr'.state = typeDegraded /\ ~cr'.finalizer /\ cr'.message = cr.message /\ last'.result = "done")]_vars

\* the bucket and user cases have happened
C16_WitnessBucketUser ==
    /\ kind # "policy" /\ pc = "idle" /\ last.step = "Deletion" /\ last.removal = "absent"
    /\ cr.state = typeDegraded /\ ~cr.finalizer

\* the pass just finished was interrupted by a failed record write after all
\* its remote calls had succeeded: State, or the finalizer, is one step behind
Interrupted(step) ==
    /\ pc = "idle" /\ cr.present
    /\ last.step = step /\ last.writeFailed /\ ~last.remoteFailed /\ last.calls # {}
    /\ (IF step = "Deletion" THEN cr.finalizer ELSE cr.state = step)

\* the next pass re-runs the interrupted step and ends as the uninterrupted
\* pass would have
Recovered ==
    /\ last'.step = last.step
    /\ (cr.state # typeError => cr'.state # typeError)
    /\ (last.step \in {"Creating", "Updating"} => cr'.state = typeReady /\ remote'.exists)
    /\ (last.step = "Deletion" /\ pc' = "idle" => cr'.state = typeDegraded /\ ~cr'.finalizer /\ ~remote'.exists)

\* C17: after a pass of Creating, Updating or deletion was interrupted between
\* its remote mutation and its record write, the next failure-free pass re-runs
\* the step without entering Error and reaches the state of an uninterrupted
\* run; an interrupted deletion ends with the finalizer removed
C17_CrashRecovery ==
    [][(((Interrupted("Creating") /\ ~cr.deletion) \/ (Interrupted("Updating") /\ ~cr.deletion) \/ (Interrupted("Deletion") /\ last.removal = "ok")) /\ FaultFreeStep) => Recovered]_vars

\* the same without the policy deletion
C17_CrashRecoveryElsewhere ==
    [][(((Interrupted("Creating") /\ ~cr.deletion) \/ (Interrupted("Updating") /\ ~cr.deletion) \/ (Interrupted("Deletion") /\ last.removal = "ok" /\ kind # "policy")) /\ FaultFreeStep) => Recovered]_vars

\* the step writes Ready at the end of Creating or Updating
ReadyWritten == cr.state \in {typeCreating, typeUpdating} /\ cr'.state = typeReady

\* C18: when Ready is written at the end of Creating or Updating the remote
\* mutation has succeeded: the remote resource exists, and for a bucket with
\* Spec.Quota > 0 the remote quota equals Spec.Quota, also when the bucket
\* existed before the Creating step
C18_MutationPrecedesReady ==
    [][ReadyWritten => (remote'.exists /\ (kind \in BucketKinds /\ cr.spec.quota > 0 => remote'.quota = cr.spec.quota))]_vars

\* the same for every reconciler but the legacy bucket reconciler
C18_MutationPrecedesReadyCurrent ==
    [][(ReadyWritten /\ kind # "bucketLegacy") => (remote'.exists /\ (kind = "bucket" /\ cr.spec.quota > 0 => remote'.quota = cr.spec.quota))]_vars

\* the current bucket reconciler has written Ready for a bucket that existed
\* before the Creating step, with the quota applied
C18_WitnessCurrent ==
    /\ kind = "bucket" /\ cr.state = typeReady /\ last.step = "Creating" /\ pc = "idle"
    /\ "SetBucketQuota" \in last.calls /\ remote.exists /\ ~remote.byOp /\ remote.quota = cr.spec.quota

\* one of the three required settings is absent
MissingConfig == ~(env.endpoint /\ env.accessKeyID /\ env.secretAccessKey)

\* the step is a pass of a reconciler that reads the environment, on a record
\* whose branch asks for a client, and every write of the record succeeded
PassNeedingClient ==
    /\ kind # "bucketLegacy" /\ pc = "idle" /\ cr.present
    /\ BranchOf(cr) \in {"Creating", "Deletion", typeReady, typeUpdating}
    /\ (BranchOf(cr) = "Deletion" => cr.finalizer)
    /\ (BranchOf(cr) = typeUpdating => kind # "user")
    /\ last'.step = BranchOf(cr) /\ ~last'.writeFailed

\* the pass failed on the configuration: Error with the text of initializeEnvs
FailedOnConfig ==
    /\ cr'.state = typeError /\ cr'.message = initializeEnvs(env) /\ last'.result = "error"
    /\ last'.calls = {} /\ remote' = remote

\* C20: while one of the three required settings is absent, every pass that
\* needs a remote client fails: no remote call, State = Error with the
\* message of the missing setting, error returned
C20_MissingConfiguration == [][(MissingConfig /\ PassNeedingClient) => FailedOnConfig]_vars

\* the same without the user deletion pass
C20_MissingConfigurationElsewhere ==
    [][(MissingConfig /\ PassNeedingClient /\ ~(kind = "user" /\ BranchOf(cr) = "Deletion")) => FailedOnConfig]_vars

\* such a failure has happened for a missing access key
C20_WitnessElsewhere ==
    /\ MissingConfig /\ cr.state = typeError /\ cr.message = AccessKeyMustBeSetMsg
    /\ last.result = "error" /\ last.step = "Creating" /\ last.calls = {}

\* C19: over every interleaving of calls the data-plane client is built at
\* most once, the admin client is built at most once, and every setting is
\* read from the environment at most once
C19_ClientMemoization ==
    /\ provider.clients <= 1
    /\ provider.adminClients <= 1
    /\ \A i \in 1..3 : provider.lookups[i] <= 1
    /\ provider.sslLookups <= 1

\* the same for the data-plane client alone
C19_ClientBuiltOnce == provider.clients <= 1

\* the same for the three required settings alone, when all are present
C19_RequiredReadOnce == (FirstMissing(env) = 4) => \A i \in 1..3 : provider.lookups[i] <= 1

\* what the code does instead: the package variables never hold a client, and
\* every call that returns without error has built a client of its own
C19_NeverKept == ~provider.minioClient /\ ~provider.minioAdminClient

C19_OneClientPerCall ==
    [][(\E p \in Callers : provider.at[p] # "idle" /\ provider'.at[p] = "idle") =>
        (provider'.clients + provider'.adminClients = provider.clients + provider.adminClients + 1 \/ initializeEnvs(env) # "")]_vars

\* C20, the provider's part: with a required setting absent no client is built
C20_NoClientWithoutConfig == MissingConfig => (provider.clients = 0 /\ provider.adminClients = 0)

\* the step ended a pass in which a write of the record was rejected
WriteRejected == pc' = "idle" /\ last'.step \notin {"env", "init"} /\ last'.writeFailed

\* C21: a rejected write of the record is never dropped: the pass that met it
\* did not go on past it and returns the error, so that the record is read
\* again and the write retried
C21_ConflictRetry == [][WriteRejected => (~last'.dropped /\ last'.result = "error")]_vars

\* the same for the bucket and user reconcilers, whose writes are all checked
C21_CheckedWritesReported ==
    [][(WriteRejected /\ kind # "policy") => (~last'.dropped /\ last'.result = "error")]_vars

\* a policy pass that met a rejected write and left State, finalizer and Spec
\* as they were returns an error: under a conflict its next write fails too
C21_ConflictReturnsError ==
    [][(WriteRejected /\ kind = "policy" /\ cr'.spec = cr.spec /\ cr'.state = cr.state /\ cr'.finalizer = cr.finalizer) => last'.result = "error"]_vars

\* the step is made by a reconciler and changes the Spec of the record
SpecChangedByPass == last'.step \notin {"env", "init"} /\ cr'.spec # cr.spec

\* C22: the bucket and user reconcilers never change the Spec; the policy
\* reconciler changes Spec.Content alone, and only in a Creating or Updating
\* pass after the policy write and the read-back both succeeded
C22_SpecReadOnly ==
    [][SpecChangedByPass =>
        (/\ kind = "policy"
         /\ cr'.spec = [cr.spec EXCEPT !.content = cr'.spec.content]
         /\ last'.step \in {"Creating", "Updating"}
         /\ {"AddCannedPolicy", "InfoCannedPolicyV2"} \subseteq last'.calls
         /\ ~last'.remoteFailed
         /\ cr'.spec.content = MarshalRaw(remote'.doc))]_vars

\* a Creating or Updating pass has stored a Spec.Content that is the marshalled
\* form of a document the server holds in another form
C22_Witness ==
    /\ kind = "policy" /\ pc = "idle" /\ last.step \in {"Creating", "Updating"} /\ ~last.writeFailed /\ ~last.remoteFailed
    /\ cr.state = typeReady /\ remote.exists
    /\ cr.spec.content = MarshalRaw(remote.doc) /\ cr.spec.content # remote.doc

\* the step writes Ready at the end of the policy Creating or Updating step
PolicyReadyWritten == kind = "policy" /\ cr.state \in {typeCreating, typeUpdating} /\ cr'.state = typeReady

\* the stored Spec.Content is the marshalled form of the stored remote document
Canonical(c, r) == r.exists /\ c.spec.content = MarshalRaw(r.doc)

\* C23: whenever Creating or Updating writes Ready for a policy record, the
\* stored Spec.Content is the canonical document returned by the server; and a
\* Ready pass on such a record, with the remote unchanged, reports no drift
C23_CanonicalAtReady ==
    /\ [][PolicyReadyWritten => Canonical(cr', remote')]_vars
    /\ [][(kind = "policy" /\ cr.present /\ ~cr.deletion /\ cr.state = typeReady /\ Canonical(cr, remote) /\ ClientAvailable(kind, env) /\ PolicyReconcileOk) => (cr' = cr /\ remote' = remote)]_vars

\* the first half for the passes in which no write of the record was rejected
C23_CanonicalUnlessDropped == [][(PolicyReadyWritten /\ ~last'.writeFailed) => Canonical(cr', remote')]_vars

\* the second half alone
C23_NoDriftWhenCanonical ==
    [][(kind = "policy" /\ cr.present /\ ~cr.deletion /\ cr.state = typeReady /\ Canonical(cr, remote) /\ ClientAvailable(kind, env) /\ PolicyReconcileOk) => (cr' = cr /\ remote' = remote)]_vars

\* a step of the bucket reconciler changes Status.State
BucketStateChange == kind \in BucketKinds /\ last'.step \notin {"env", "init"} /\ cr'.present /\ cr'.state # cr.state

\* the changes of State between the working states
WorkTransitions == {<<typeUnset, typeCreating>>, <<typeCreating, typeReady>>, <<typeReady, typeUpdating>>, <<typeUpdating, typeReady>>}

\* the change is one of the working transitions, or a move to Error or to
\* Degraded
AllowedChange ==
    \/ <<cr.state, cr'.state>> \in WorkTransitions
    \/ cr'.state = typeError
    \/ cr'.state = typeDegraded /\ cr.deletion

\* C24: every change of Status.State made by the bucket reconciler is Unset ->
\* Creating, Creating -> Ready, Ready -> Updating, Updating -> Ready, a move to
\* Error in a pass where a remote call or the client acquisition failed, or a
\* move to Degraded in a pass where deletion was requested
C24_AllowedTransitions ==
    [][BucketStateChange => (AllowedChange /\ (cr'.state = typeError => (last'.remoteFailed \/ ~ClientAvailable(kind, env))))]_vars

\* C24 with the unreadable MINIO_EMPTY_BUCKET_ON_DELETE setting as a third cause
\* of the move to Error
C24_AllowedTransitionsOrSetting ==
    [][BucketStateChange => (AllowedChange /\ (cr'.state = typeError => (last'.remoteFailed \/ ~ClientAvailable(kind, env) \/ (cr.deletion /\ last'.err = EmptyOnDeleteParseMsg))))]_vars

\* a deletion pass moved a Ready record to Error because the setting could not
\* be parsed, without any remote call
C24_Witness ==
    /\ kind = "bucket" /\ pc = "idle" /\ cr.present /\ cr.deletion /\ cr.state = typeError
    /\ last.step = "Deletion" /\ last.calls = {} /\ ClientAvailable(kind, env) /\ cr.message = EmptyOnDeleteParseMsg

\* a pass of the bucket reconciler whose context was cancelled during its
\* first remote call has returned
CancelledPassEnded == kind \in BucketKinds /\ pc' = "idle" /\ last'.cancelled

\* C25: when the context of a bucket pass is cancelled while a remote call is
\* in flight, the pass returns without a further remote call and without a
\* further write of the record
C25_Cancellation == [][CancelledPassEnded => (Cardinality(last'.calls) <= 1 /\ cr' = cr)]_vars

\* the part about the record alone: a cancelled pass writes nothing to it
C25_NoWriteAfterCancel == [][CancelledPassEnded => cr' = cr]_vars

\* a pass of the bucket reconciler on a record in Ready that is not marked for
\* deletion has returned, and no access to the record was rejected
BucketReadyPass ==
    /\ kind \in BucketKinds /\ pc = "idle" /\ cr.present /\ ~cr.deletion /\ cr.state = typeReady
    /\ pc' = "idle" /\ last'.step = typeReady /\ ~last'.writeFailed

\* the pass issued no remote call but the quota read, and the remote is as it was
ReadOnlyRemote == last'.calls \subseteq {"GetBucketQuota"} /\ remote' = remote

\* Updating is written when the remote quota differs from Spec.Quota, and
\* nothing is written otherwise
DriftWritten == IF remote.quota # cr.spec.quota THEN cr' = [cr EXCEPT !.state = typeUpdating] ELSE cr' = cr

\* C26: a bucket pass in Ready issues no mutating remote call; it writes State =
\* Updating if the remote quota differs from Spec.Quota and otherwise writes
\* nothing to the record
C26_ReadyReadOnly == [][BucketReadyPass => (ReadOnlyRemote /\ DriftWritten)]_vars

\* C26 for the passes that obtained a client and whose quota read succeeded
C26_ReadyReadOnlyAfterRead ==
    [][(BucketReadyPass /\ ClientAvailable(kind, env) /\ ~last'.remoteFailed) => (ReadOnlyRemote /\ DriftWritten)]_vars

\* no Ready pass changes the remote, whatever failed
C26_ReadyNeverMutates == [][BucketReadyPass => ReadOnlyRemote]_vars

\* a Ready pass read a quota that differs from Spec.Quota and wrote Updating
C26_WitnessAfterRead ==
    /\ kind \in BucketKinds /\ pc = "idle" /\ cr.state = typeUpdating /\ last.step = typeReady
    /\ last.calls = {"GetBucketQuota"} /\ ~last.remoteFailed /\ remote.exists /\ remote.quota # cr.spec.quota

\* the quota read of a bucket Ready pass failed
QuotaReadFailed == BucketReadyPass /\ "GetBucketQuota" \in last'.calls /\ last'.remoteFailed

\* C27: a failed quota read in the bucket Ready step moves the record to Error;
\* the record is moved to Updating only when a quota that was read differs from
\* Spec.Quota
C27_FailedReadIsError ==
    /\ [][QuotaReadFailed => cr'.state = typeError]_vars
    /\ [][(BucketReadyPass /\ cr'.state = typeUpdating) => (~last'.remoteFailed /\ remote.quota # cr.spec.quota)]_vars

\* what the step does after a failed read: it compares Spec.Quota with 0
C27_FailedReadReadsZero ==
    [][QuotaReadFailed => (cr'.state = (IF cr.spec.quota # 0 THEN typeUpdating ELSE typeReady) /\ cr'.message = cr.message)]_vars

\* a pass of the user reconciler on a record in Ready that is not marked for
\* deletion has returned; it had a client and none of its remote calls failed
UserReadyPassOk ==
    /\ kind = "user" /\ pc = "idle" /\ cr.present /\ ~cr.deletion /\ cr.state = typeReady
    /\ last'.step = typeReady /\ ClientAvailable(kind, env) /\ ~last'.remoteFailed

\* C28: the user reconciler never writes State = Updating, and a user Ready pass
\* in which every remote call succeeds leaves State = Ready and writes nothing
\* to the record, whatever it attached or detached
C28_UserReadyKeepsState ==
    /\ [](kind = "user" => cr.state # typeUpdating)
    /\ [][UserReadyPassOk => cr' = cr]_vars

\* a Ready pass detached and attached policies and the record is still Ready
C28_Witness ==
    /\ kind = "user" /\ pc = "idle" /\ cr.state = typeReady /\ last.step = typeReady /\ ~last.remoteFailed
    /\ last.detach # <<>> /\ last.attach # <<>> /\ {"DetachPolicy", "AttachPolicy"} \subseteq last.calls

\* a Creating or Ready pass of the user reconciler on a record whose account is
\* disabled
DisabledPass == kind = "user" /\ pc = "idle" /\ cr.present /\ cr.spec.accountStatus = "disabled" /\ last'.step \in {typeCreating, typeReady}

\* C29: for a user record with AccountStatus = disabled no Creating or Ready pass
\* issues an attach or detach call, and the remote-attached set is as it was
C29_DisabledNoPolicyAction ==
    [][DisabledPass => (last'.calls \cap {"AttachPolicy", "DetachPolicy"} = {} /\ last'.attach = <<>> /\ last'.detach = <<>> /\ remote'.attached = remote.attached)]_vars

\* a Ready pass of a disabled account read the user while the attached set
\* differed from Spec.Policies, and left it so
C29_Witness ==
    /\ kind = "user" /\ pc = "idle" /\ cr.spec.accountStatus = "disabled" /\ last.step = typeReady
    /\ "GetUserInfo" \in last.calls /\ ~last.remoteFailed /\ remote.exists
    /\ remote.attached # Range(cr.spec.policies) \ {""} /\ remote.attached # {} /\ Range(cr.spec.policies) \ {""} # {}

\* C30: the user reconciler never passes an empty policy name to a remote
\* attach or detach call, in Creating as well as in Ready
C30_NoEmptyPolicyName == kind = "user" => ("" \notin Range(last.attach) /\ "" \notin Range(last.detach))

\* C30 for the Ready step, where arrayDifference has filtered the names
C30_NoEmptyPolicyNameInReady == (kind = "user" /\ last.step = typeReady) => ("" \notin Range(last.attach) /\ "" \notin Range(last.detach))

\* a Ready pass on a user with no policy attached, whose Spec.Policies has an
\* empty entry, attached the other entry alone
C30_WitnessInReady ==
    /\ kind = "user" /\ pc = "idle" /\ last.step = typeReady /\ "" \in Range(cr.spec.policies)
    /\ "AttachPolicy" \in last.calls /\ last.attach # <<>> /\ "" \notin Range(last.attach)

\* a pass has written Ready on a record that was in Creating
ReadyFromCreating == cr.present /\ cr.state = typeCreating /\ cr'.state = typeReady

\* a pass has written Creating on a record whose State was unset
CreatingFromUnset == cr.present /\ cr.state = typeUnset /\ cr'.state = typeCreating

\* C31: a Creating pass that writes State = Ready has persisted the finalizer and
\* returns requeue-immediately, and the Unset pass returns requeue-immediately
\* after writing State = Creating
C31_RequeueAfterCreation ==
    /\ [][ReadyFromCreating => (cr'.finalizer /\ last'.step = "Creating" /\ last'.result = "requeue")]_vars
    /\ [][CreatingFromUnset => (last'.step = "Unset" /\ last'.result = "requeue")]_vars

\* a Creating pass added the finalizer, wrote Ready and asked for a requeue
C31_Witness ==
    /\ pc = "idle" /\ cr.present /\ cr.state = typeReady /\ cr.finalizer /\ ~cr.deletion
    /\ last.step = "Creating" /\ last.result = "requeue" /\ ~last.writeFailed /\ ~last.remoteFailed

\* C33: every record in State = Ready or State = Updating carries the finalizer
C33_FinalizerInvariant == (cr.present /\ cr.state \in {typeReady, typeUpdating}) => cr.finalizer

\* a record in Updating, marked for deletion, still with its finalizer
C33_Witness == cr.present /\ cr.state = typeUpdating /\ cr.finalizer /\ cr.deletion /\ last.step = "env"

\* C32: the "Deleting" event is emitted only in a deletion pass whose remote
\* removal succeeded or found the resource absent; a pass whose removal failed
\* and the Creating, Ready, Updating and Error passes emit none
C32_EventOnlyOnRemoval == last.event => (last.step = "Deletion" /\ last.removal \in {"ok", "absent"} /\ cr.deletion)

\* a deletion pass of the user reconciler found the user absent and emitted the
\* event
C32_Witness == kind = "user" /\ pc = "idle" /\ last.event /\ last.step = "Deletion" /\ last.removal = "absent" /\ "RemoveUser" \in last.calls

\* a record in Error that carries the finalizer and is marked for deletion
ErrorDeleting == cr.present /\ cr.state = typeError /\ cr.deletion /\ cr.finalizer

\* the settings a deletion pass reads can be read: the client settings, and for
\* the bucket reconciler MINIO_EMPTY_BUCKET_ON_DELETE
DeletionConfigured == ClientAvailable(kind, env) /\ (kind = "bucket" => readEmptyBucketOnDelete(env).err = "")

\* the removal call of the kind was issued, or the pass stands in front of it
RemovalAttempted == pc' = "RemoveBucket" \/ last'.calls \cap {"RemoveBucket", "RemoveCannedPolicy", "RemoveUser"} # {}

InDrainLoop == kind \in BucketKinds /\ pc \in {"RemoveBucket", "RemoveObjects"} /\ DrainEnabled

\* C35: with draining enabled and no other client writing to the bucket, the
\* loop of finalizerOpsForBucket terminates for every bucket content: the pass
\* returns, with the bucket removed or with an error
C35_DrainLoopTerminates == InDrainLoop ~> (pc = "idle")

\* the loop terminates when every object of the bucket can be removed
C35_TerminatesWhenRemovable == (InDrainLoop /\ ~remote.locked) ~> (pc = "idle" /\ ~remote.exists)

\* the loop has turned at least once on a bucket that holds a version the
\* batch delete cannot remove
C35_LoopOnLocked == InDrainLoop /\ remote.locked /\ pc = "RemoveBucket" /\ "RemoveObjects" \in last.calls /\ remote.objects = 0

\* the remote resource of a record in Ready that is not marked for deletion is
\* missing, and the operator has its settings
MissingUnderReady == cr.present /\ cr.state = typeReady /\ ~cr.deletion /\ ~remote.exists /\ ClientAvailable(kind, env)

\* the remote resource exists again under a record in Ready
Restored == cr.state = typeReady /\ remote.exists

\* C36: if the remote resource of a record in Ready is removed outside the
\* operator and no deletion is requested, then under fair dispatch without
\* failures the reconciler eventually restores the remote resource
C36_HealingOfRemoval == MissingUnderReady ~> (Restored \/ cr.deletion)

\* the same for the user kind, whose Ready step runs SetUser again
C36_UserHealed == (kind = "user" /\ MissingUnderReady) ~> (Restored \/ cr.deletion)

\* a bucket record ended in Error after its bucket was removed outside the
\* operator: the quota could not be set on the missing bucket
C36_StuckInError ==
    /\ kind \in BucketKinds /\ pc = "idle" /\ cr.present /\ ~cr.deletion /\ cr.state = typeError /\ ~remote.exists
    /\ last.step = typeUpdating /\ "SetBucketQuota" \in last.calls

\* a step changed the bucket named n
BucketTouched(n) == pair'.buckets[n] # pair.buckets[n]

\* some record that is in Ready and not marked for deletion names bucket n
NamedByReady(n) == \E j \in Ids : pair.rec[j].present /\ pair.rec[j].state = typeReady /\ ~pair.rec[j].deletion /\ NameOf(pair, j) = n

\* C37: a pass changes only the bucket that its own record's Spec.Name names,
\* and a bucket is never removed by the deletion of one record while another
\* record, in State = Ready and not marked for deletion, names the same bucket
C37_IsolationBetweenIdentities ==
    /\ [][\A n \in BucketNames : BucketTouched(n) => (pair'.acted \in Ids /\ NameOf(pair, pair'.acted) = n)]_vars
    /\ [][\A n \in BucketNames : (pair.buckets[n].exists /\ ~pair'.buckets[n].exists) => ~NamedByReady(n)]_vars

\* the first half alone: a pass touches the bucket of its own Spec.Name only
C37_OwnNameOnly ==
    [][\A n \in BucketNames : BucketTouched(n) => (pair'.acted \in Ids /\ NameOf(pair, pair'.acted) = n)]_vars

\* the second half for records that name different buckets
C37_NoRemovalUnderOtherName ==
    [][\A n \in BucketNames : (pair.buckets[n].exists /\ ~pair'.buckets[n].exists /\ NameOf(pair, "A") # NameOf(pair, "B")) => ~NamedByReady(n)]_vars

\* record A was cleaned up while record B, Ready and not marked for deletion,
\* names the same bucket, which is gone
C37_SharedBucketRemoved ==
    /\ pair.acted = "A" /\ NameOf(pair, "A") = NameOf(pair, "B")
    /\ pair.rec["A"].state = typeDegraded /\ ~pair.rec["A"].finalizer
    /\ pair.rec["B"].present /\ pair.rec["B"].state = typeReady /\ ~pair.rec["B"].deletion
    /\ ~pair.buckets[NameOf(pair, "B")].exists

\* the reconciler has removed its finalizer from a record marked for deletion,
\* and the record is still stored
CleanedUp == cr.present /\ cr.deletion /\ ~cr.finalizer /\ cr.state = typeDegraded

\* a pass has started on the record: the step is one of a reconciler
PassStarted == pc = "idle" /\ last'.step \notin {"env", "init"}

\* the step issued no remote call and left record and remote as they were
Quiet == pc' = "idle" /\ last'.calls = {} /\ cr' = cr /\ remote' = remote

\* C38: once the reconciler has removed its finalizer from a record marked for
\* deletion, every later pass on the record issues no remote call and writes
\* nothing to it; a pass for a record that no longer exists issues no remote
\* call and returns done
C38_QuiescenceAfterCleanup ==
    /\ [][(CleanedUp /\ PassStarted) => Quiet]_vars
    /\ [][(~cr.present /\ PassStarted) => (Quiet /\ last'.step = "NotFound" /\ last'.result = "done")]_vars

\* a pass ran on a cleaned-up record and did nothing
C38_Witness == CleanedUp /\ pc = "idle" /\ last.step = "Deletion" /\ last.calls = {} /\ last.result = "done" /\ ~last.writeFailed

\* a pass ran for a record that was erased
C38_WitnessNotFound == ~cr.present /\ pc = "idle" /\ last.step = "NotFound" /\ last.calls = {}

\* the policies Spec.Policies asks for, without empty entries
Wanted(c) == Range(c.spec.policies) \ {""}

\* a user record in Ready with an enabled account, not marked for deletion, and
\* an operator that has its settings
EnabledReady == kind = "user" /\ pc = "idle" /\ cr.present /\ ~cr.deletion /\ cr.state = typeReady /\ cr.spec.accountStatus = "enabled" /\ ClientAvailable(kind, env)

\* the remote-attached set after a failure-free Ready pass on record c and
\* remote r
AfterReady(c, r) == UserReady(c, r, env, NoFault).remote

\* C39: for a user record in Ready with an enabled account whose attached
\* policies already equal Spec.Policies without empty entries, a Ready pass
\* issues no attach and no detach call; and two Ready passes in a row leave the
\* attached set that one pass leaves
C39_UserFixedPoint ==
    /\ [][(EnabledReady /\ remote.attached = Wanted(cr) /\ last'.step = typeReady) => (last'.calls \cap {"AttachPolicy", "DetachPolicy"} = {} /\ remote'.attached = remote.attached)]_vars
    /\ [](EnabledReady => AfterReady(cr, AfterReady(cr, remote)).attached = AfterReady(cr, remote).attached)

\* a Ready pass on a converged user with a policy attached and an empty entry in
\* Spec.Policies made no attach and no detach call
C39_Witness ==
    /\ EnabledReady /\ last.step = typeReady /\ ~last.remoteFailed /\ "GetUserInfo" \in last.calls
    /\ remote.attached = Wanted(cr) /\ remote.attached # {} /\ "" \in Range(cr.spec.policies)
    /\ last.calls \cap {"AttachPolicy", "DetachPolicy"} = {}

====
